---- MODULE Spec2Model ----
(***************************************************************************)
(* Model of the intervals-icu-mcp tool functions.                          *)
(*                                                                         *)
(* One tool invocation is in flight at a time.  A tool function is entered *)
(* (its arguments are checked and the request to the remote API client is  *)
(* issued), the client answers or raises, and the rest of the function     *)
(* body turns the answer into a response envelope.  A tool function is     *)
(* invoked directly with a context that holds the configuration, or by the *)
(* configuration middleware, which fills the context first.                *)
(*                                                                         *)
(* Python values:                                                          *)
(*   None is <<>> and a present Optional value v is <<v>>;                 *)
(*   a dict is a function whose DOMAIN is its set of keys;                 *)
(*   a list is a sequence.                                                 *)
(* Durations (secs) are whole seconds; dates are day numbers, which order  *)
(* as the ISO-8601 strings do.                                             *)
(***************************************************************************)
EXTENDS Integers, Sequences, FiniteSets, TLC

VARIABLES
    pc,        \* "idle" | "await_api" | "body" | "except" | "done" | "raised":
               \* position in the tool call
    tool,      \* name of the tool function being run
    args,      \* its arguments
    request,   \* the request issued to the remote API client (None before)
    api_resp,  \* the object the client returned (the tool may mutate it), or
               \* the exception it raised while the tool handles it
    result,    \* the envelope the tool returned (None before)
    ctx_state  \* the state store of the request's FastMCP context (set_state)

vars == <<pc, tool, args, request, api_resp, result, ctx_state>>

----------------------------------------------------------------------------
(* Python values *)

None == <<>>

Some(v) == <<v>>

Val(x) == x[1]

\* Truthiness of an Optional number: None and 0 are falsy.
TruthyNum(x) == x # None /\ Val(x) # 0

\* Truthiness of an Optional string: None and "" are falsy.
TruthyStr(x) == x # None /\ Val(x) # ""

EmptyDict == <<>>

\* {key: val} if cond else {}
Opt(cond, key, val) == IF cond THEN key :> val ELSE EmptyDict

Abs(x) == IF x < 0 THEN -x ELSE x

\* int(x) of the quotient num/den (den > 0): truncation toward zero.
IntTrunc(num, den) == IF num >= 0 THEN num \div den ELSE -((-num) \div den)

----------------------------------------------------------------------------
(* ResponseBuilder *)

build_response(data, analysis, metadata, query_type) ==
    [data |-> data]
        @@ Opt(analysis # None /\ analysis # EmptyDict, "analysis", analysis)
        @@ Opt(metadata # None /\ metadata # EmptyDict, "metadata", metadata)
        @@ Opt(query_type # None, "query_type", Val(query_type))

build_error_response(message, error_type, suggestions) ==
    [error |-> message, error_type |-> error_type]
        @@ Opt(suggestions # None /\ suggestions # <<>>, "suggestions", suggestions)

IsSuccess(env) == env # None /\ "data" \in DOMAIN env

IsError(env) == env # None /\ "error" \in DOMAIN env

----------------------------------------------------------------------------
(* Bounds and input domains *)

\* Longest curve the remote API returns in the model.
MaxCurveLen == 3

\* Durations of the curve points the remote API may return: around the
\* targets 5 s (tolerance 0.5 s) and 60 s (6 s).
CurveSecs == {5, 6, 54, 58, 66, 67}

\* A power curve point for each duration; two points of 58 s differ in watts.
\* Dates are day numbers from 1.
PowerPoints ==
    { [secs |-> s, watts |-> Some(1000 - s), date |-> Some(1 + (s % 3)),
       src_activity_id |-> IF s % 2 = 0 THEN Some("i1") ELSE None] : s \in CurveSecs }
    \cup { [secs |-> 58, watts |-> Some(300), date |-> None, src_activity_id |-> None] }

HrPoints ==
    { [secs |-> s, bpm |-> Some(200 - (s \div 2)), date |-> Some(1 + (s % 3)),
       src_activity_id |-> IF s % 2 = 0 THEN Some("i1") ELSE None] : s \in CurveSecs }
    \cup { [secs |-> 58, bpm |-> Some(150), date |-> None, src_activity_id |-> None] }

\* A pace is a number of minutes per kilometre, held as a whole number of
\* 1/PaceDen minutes (with PaceDen a power of two the float arithmetic of the
\* tools is exact on these values).  Paces are not negative.
PaceDen == 8

\* Pace curve points: paces of 4.5, 3.875, 4.125, 4.25 and 5.875 min/km,
\* a zero pace and an absent pace.
PacePoints ==
    { [secs |-> 54, pace |-> Some(36), date |-> Some(1), src_activity_id |-> Some("i1")],
      [secs |-> 58, pace |-> Some(31), date |-> Some(2), src_activity_id |-> None],
      [secs |-> 58, pace |-> Some(33), date |-> None, src_activity_id |-> None],
      [secs |-> 62, pace |-> Some(34), date |-> Some(3), src_activity_id |-> Some("i2")],
      [secs |-> 66, pace |-> Some(0), date |-> Some(1), src_activity_id |-> None],
      [secs |-> 67, pace |-> None, date |-> Some(2), src_activity_id |-> None],
      [secs |-> 199, pace |-> Some(47), date |-> Some(3), src_activity_id |-> None] }

BoundedSeq(S, n) == UNION { [1..k -> S] : k \in 0..n }

\* days_back / time_period arguments of the curve tools.
PeriodArgs ==
    { [days_back |-> None, time_period |-> None],
      [days_back |-> Some(14), time_period |-> Some("nonsense")],
      [days_back |-> None, time_period |-> Some("Week")],
      [days_back |-> None, time_period |-> Some("all")],
      [days_back |-> None, time_period |-> Some("nonsense")] }

\* str.lower() on the strings of the model.
Lower(s) ==
    IF s = "Week" THEN "week"
    ELSE IF s = "YEAR" THEN "year"
    ELSE IF s = "ALL" THEN "all"
    ELSE IF s = "WORKOUT" THEN "workout"
    ELSE s

----------------------------------------------------------------------------
(* Date range of the curve tools: performance.py 41-71, curves.py 41-71, 214-244 *)

period_map == [week |-> 7, month |-> 30, year |-> 365]

\* date_range testing days_back for truth instead of for None.
date_range_truthy_days(days_back, time_period) ==
    IF TruthyNum(days_back)
    THEN [valid |-> TRUE, oldest |-> days_back,
          period_label |-> ToString(Val(days_back)) \o "_days"]
    ELSE IF TruthyStr(time_period)
    THEN IF Lower(Val(time_period)) \in DOMAIN period_map
         THEN [valid |-> TRUE, oldest |-> Some(period_map[Lower(Val(time_period))]),
               period_label |-> Lower(Val(time_period))]
         ELSE IF Lower(Val(time_period)) = "all"
         THEN [valid |-> TRUE, oldest |-> None, period_label |-> "all_time"]
         ELSE [valid |-> FALSE]
    ELSE [valid |-> TRUE, oldest |-> Some(90), period_label |-> "90_days"]

\* The window chosen from the arguments: the number of days before now of
\* `oldest` (None: no lower bound), the period label, or invalid.
date_range(days_back, time_period) ==
    IF days_back # None
    THEN [valid |-> TRUE, oldest |-> days_back,
          period_label |-> ToString(Val(days_back)) \o "_days"]
    ELSE IF TruthyStr(time_period)
    THEN IF Lower(Val(time_period)) \in DOMAIN period_map
         THEN [valid |-> TRUE, oldest |-> Some(period_map[Lower(Val(time_period))]),
               period_label |-> Lower(Val(time_period))]
         ELSE IF Lower(Val(time_period)) = "all"
         THEN [valid |-> TRUE, oldest |-> None, period_label |-> "all_time"]
         ELSE [valid |-> FALSE]
    ELSE [valid |-> TRUE, oldest |-> Some(90), period_label |-> "90_days"]

----------------------------------------------------------------------------
(* Peak-effort matching *)

\* key_durations of get_power_curves, in dict order.
power_key_durations ==
    << <<5, "5_sec">>, <<15, "15_sec">>, <<30, "30_sec">>, <<60, "1_min">>,
       <<120, "2_min">>, <<300, "5_min">>, <<600, "10_min">>, <<1200, "20_min">>,
       <<3600, "1_hour">> >>

\* key_durations of get_hr_curves.
hr_key_durations ==
    << <<5, "5_sec">>, <<15, "15_sec">>, <<30, "30_sec">>, <<60, "1_min">>,
       <<120, "2_min">>, <<300, "5_min">>, <<600, "10_min">>, <<1200, "20_min">>,
       <<3600, "1_hour">> >>

\* key_durations of get_pace_curves.
pace_key_durations ==
    << <<60, "400m_equivalent">>, <<180, "1km_equivalent">>, <<300, "5_min">>,
       <<600, "10_min">>, <<900, "15_min">>, <<1200, "20_min">>, <<1800, "30_min">>,
       <<3600, "1_hour">> >>

\* min(iterable, key=...) over the sequence of keys: the index of the first
\* element whose key is minimal (a later element replaces the one held only
\* when its key is strictly smaller).
RECURSIVE MinScan(_, _, _)
MinScan(keys, i, best) ==
    IF i > Len(keys) THEN best
    ELSE MinScan(keys, i + 1, IF keys[i] < keys[best] THEN i ELSE best)

FirstMin(keys) == MinScan(keys, 2, 1)

\* max(iterable, key=...): the index of the first element whose key is maximal.
RECURSIVE MaxScan(_, _, _)
MaxScan(keys, i, best) ==
    IF i > Len(keys) THEN best
    ELSE MaxScan(keys, i + 1, IF keys[i] > keys[best] THEN i ELSE best)

FirstMax(keys) == MaxScan(keys, 2, 1)

\* A scan that keeps the LAST minimal element.
RECURSIVE MinScanLast(_, _, _)
MinScanLast(keys, i, best) ==
    IF i > Len(keys) THEN best
    ELSE MinScanLast(keys, i + 1, IF keys[i] <= keys[best] THEN i ELSE best)

closest_point_last(data, seconds) ==
    IF data = <<>> THEN None
    ELSE Some(data[MinScanLast([i \in 1..Len(data) |-> Abs(data[i].secs - seconds)], 2, 1)])

\* closest_point = min(data, key=lambda p: abs(p.secs - seconds), default=None)
closest_point(data, seconds) ==
    IF data = <<>> THEN None
    ELSE Some(data[FirstMin([i \in 1..Len(data) |-> Abs(data[i].secs - seconds)])])

\* abs(closest_point.secs - seconds) <= seconds * 0.1, for whole seconds.
\* The float seconds * 0.1 bounds the same whole distances as seconds / 10
\* for every target of the three key_durations tables.
within_tolerance_strict(point, seconds) == 10 * Abs(point.secs - seconds) < seconds

within_tolerance(point, seconds) == 10 * Abs(point.secs - seconds) <= seconds

\* The targets (indices of key_durations) whose closest point is accepted.
Accepted(data, key_durations) ==
    { k \in 1..Len(key_durations) :
        /\ closest_point(data, key_durations[k][1]) # None
        /\ within_tolerance(Val(closest_point(data, key_durations[k][1])),
                            key_durations[k][1]) }

\* The target index a label of key_durations belongs to (labels are unique).
TargetOf(label, key_durations) ==
    CHOOSE k \in 1..Len(key_durations) : key_durations[k][2] = label

power_effort(p) ==
    [watts |-> p.watts, duration_seconds |-> p.secs]
        @@ Opt(TruthyNum(p.date), "date", p.date)
        @@ Opt(TruthyStr(p.src_activity_id), "activity_id", p.src_activity_id)

power_peak_efforts(data) ==
    [label \in { power_key_durations[k][2] : k \in Accepted(data, power_key_durations) } |->
        power_effort(Val(closest_point(data,
            power_key_durations[TargetOf(label, power_key_durations)][1])))]

hr_effort(p) ==
    [bpm |-> p.bpm, duration_seconds |-> p.secs]
        @@ Opt(TruthyNum(p.date), "date", p.date)
        @@ Opt(TruthyStr(p.src_activity_id), "activity_id", p.src_activity_id)

hr_peak_efforts(data) ==
    [label \in { hr_key_durations[k][2] : k \in Accepted(data, hr_key_durations) } |->
        hr_effort(Val(closest_point(data,
            hr_key_durations[TargetOf(label, hr_key_durations)][1])))]

\* f"{k:02d}": at least two characters, padded with zeros on the left.
fmt_02d(k) == IF 0 <= k /\ k < 10 THEN "0" \o ToString(k) ELSE ToString(k)

\* Rounds the seconds to the nearest whole second instead of truncating.
format_pace_rounded(v) ==
    LET minutes == IntTrunc(v, PaceDen)
        seconds_part == IntTrunc(2 * (v - minutes * PaceDen) * 60 + PaceDen, 2 * PaceDen)
    IN  ToString(minutes) \o ":" \o fmt_02d(seconds_part) \o " /km"

\* minutes = int(v); seconds_part = int((v - minutes) * 60);
\* f"{minutes}:{seconds_part:02d} /km", for the pace v / PaceDen.
format_pace(v) ==
    LET minutes == IntTrunc(v, PaceDen)
        seconds_part == IntTrunc((v - minutes * PaceDen) * 60, PaceDen)
    IN  ToString(minutes) \o ":" \o fmt_02d(seconds_part) \o " /km"

pace_effort(p) ==
    [pace_min_per_km |-> p.pace, duration_seconds |-> p.secs]
        @@ Opt(TruthyNum(p.pace), "pace_formatted",
               IF TruthyNum(p.pace) THEN format_pace(Val(p.pace)) ELSE None)
        @@ Opt(TruthyNum(p.date), "date", p.date)
        @@ Opt(TruthyStr(p.src_activity_id), "activity_id", p.src_activity_id)

pace_peak_efforts(data) ==
    [label \in { pace_key_durations[k][2] : k \in Accepted(data, pace_key_durations) } |->
        pace_effort(Val(closest_point(data,
            pace_key_durations[TargetOf(label, pace_key_durations)][1])))]

----------------------------------------------------------------------------
(* Summary statistics and FTP analysis of the curve tools *)

\* x or 0, for an Optional number x.
OrZero(x) == IF TruthyNum(x) THEN Val(x) ELSE 0

\* min(dates) / max(dates) of a non-empty list of day numbers.
MinOf(S) == CHOOSE x \in S : \A y \in S : x <= y

MaxOf(S) == CHOOSE x \in S : \A y \in S : x >= y

Dates(data) == { Val(data[i].date) : i \in { j \in 1..Len(data) : TruthyNum(data[j].date) } }

duration_range(data) ==
    [min_seconds |-> data[FirstMin([i \in 1..Len(data) |-> data[i].secs])].secs,
     max_seconds |-> data[FirstMax([i \in 1..Len(data) |-> data[i].secs])].secs]

effort_date_range(data) ==
    Opt(Dates(data) # {}, "effort_date_range",
        IF Dates(data) # {}
        THEN [oldest |-> MinOf(Dates(data)), newest |-> MaxOf(Dates(data))]
        ELSE None)

power_summary(data) ==
    LET max_power_point == data[FirstMax([i \in 1..Len(data) |-> OrZero(data[i].watts)])]
    IN  [total_data_points |-> Len(data),
         max_power_watts |-> max_power_point.watts,
         max_power_duration_seconds |-> max_power_point.secs,
         duration_range |-> duration_range(data)]
            @@ effort_date_range(data)

hr_summary(data) ==
    LET max_hr_point == data[FirstMax([i \in 1..Len(data) |-> OrZero(data[i].bpm)])]
    IN  [total_data_points |-> Len(data),
         max_hr_bpm |-> max_hr_point.bpm,
         max_hr_duration_seconds |-> max_hr_point.secs,
         duration_range |-> duration_range(data)]
            @@ effort_date_range(data)

\* A key larger than every pace of the model: float("inf").
Inf == 1000000

pace_summary(data, use_gap) ==
    LET best_pace_point ==
            data[FirstMin([i \in 1..Len(data) |->
                    IF TruthyNum(data[i].pace) THEN Val(data[i].pace) ELSE Inf])]
    IN  [total_data_points |-> Len(data),
         best_pace_min_per_km |-> best_pace_point.pace,
         best_pace_duration_seconds |-> best_pace_point.secs,
         duration_range |-> duration_range(data),
         gap_enabled |-> use_gap]
            @@ Opt(TruthyNum(best_pace_point.pace), "best_pace_formatted",
                   IF TruthyNum(best_pace_point.pace)
                   THEN format_pace(Val(best_pace_point.pace)) ELSE None)
            @@ effort_date_range(data)

\* zones of get_power_curves as whole percentages of FTP, in dict order.
zones ==
    << <<"recovery", 0, 55>>, <<"endurance", 56, 75>>, <<"tempo", 76, 90>>,
       <<"threshold", 91, 105>>, <<"vo2max", 106, 120>>, <<"anaerobic", 121, 150>> >>

power_zones(estimated_ftp) ==
    [zone_name \in { zones[k][1] : k \in 1..Len(zones) } |->
        LET z == zones[CHOOSE k \in 1..Len(zones) : zones[k][1] = zone_name]
        IN  [min_watts |-> IntTrunc(estimated_ftp * z[2], 100),
             max_watts |-> IntTrunc(estimated_ftp * z[3], 100),
             min_percent_ftp |-> z[2],
             max_percent_ftp |-> z[3]]]

\* An FTP analysis read from the LAST of the points closest to 1200 s.
ftp_analysis_last_closest(data) ==
    LET twenty_min_point == closest_point_last(data, 1200)
        estimated_ftp == IntTrunc(OrZero(Val(twenty_min_point).watts) * 95, 100)
    IN  IF twenty_min_point # None
           /\ Abs(Val(twenty_min_point).secs - 1200) <= 120
           /\ estimated_ftp > 0
        THEN [twenty_min_power |-> Val(twenty_min_point).watts,
              estimated_ftp |-> estimated_ftp,
              power_zones |-> power_zones(estimated_ftp)]
        ELSE None

\* ftp_analysis, or None: 95% of the power of the point closest to 1200 s,
\* when that point is within 120 s and the estimate is positive.
ftp_analysis(data) ==
    LET twenty_min_point == closest_point(data, 1200)
        estimated_ftp == IntTrunc(OrZero(Val(twenty_min_point).watts) * 95, 100)
    IN  IF twenty_min_point # None
           /\ Abs(Val(twenty_min_point).secs - 1200) <= 120
           /\ estimated_ftp > 0
        THEN [twenty_min_power |-> Val(twenty_min_point).watts,
              estimated_ftp |-> estimated_ftp,
              power_zones |-> power_zones(estimated_ftp)]
        ELSE None

\* zones of get_hr_curves as whole percentages of the maximum heart rate.
hr_zone_table ==
    << <<"zone_1_recovery", 50, 60>>, <<"zone_2_endurance", 60, 70>>,
       <<"zone_3_tempo", 70, 80>>, <<"zone_4_threshold", 80, 90>>,
       <<"zone_5_vo2max", 90, 100>> >>

\* hr_zones, or None when the maximum heart rate is absent or zero.  For the
\* heart rates of HrPoints int(max_hr * low) is the whole part of the exact
\* product.
hr_zones(data) ==
    LET max_hr_point == data[FirstMax([i \in 1..Len(data) |-> OrZero(data[i].bpm)])]
        max_hr == OrZero(max_hr_point.bpm)
    IN  IF TruthyNum(max_hr_point.bpm)
        THEN [zone_name \in { hr_zone_table[k][1] : k \in 1..Len(hr_zone_table) } |->
                LET z == hr_zone_table[CHOOSE k \in 1..Len(hr_zone_table) :
                                            hr_zone_table[k][1] = zone_name]
                IN  [min_bpm |-> IntTrunc(max_hr * z[2], 100),
                     max_bpm |-> IntTrunc(max_hr * z[3], 100),
                     min_percent_max |-> z[2],
                     max_percent_max |-> z[3]]]
        ELSE None

----------------------------------------------------------------------------
(* Envelopes of the curve tools, from the client's answer *)

\* The envelope of get_power_curves for a non-empty curve.
power_curves_result(data, period_label) ==
    build_response(
        [period |-> period_label,
         peak_efforts |-> power_peak_efforts(data),
         summary |-> power_summary(data)]
            @@ Opt(ftp_analysis(data) # None, "ftp_analysis", ftp_analysis(data)),
        None, None, Some("power_curves"))

\* Answers an empty curve with a no_data error instead of a success envelope.
power_curves_response_no_data(data, period_label) ==
    IF data = None \/ Len(data) = 0
    THEN build_error_response("No power curve data available for " \o period_label,
                              "no_data", None)
    ELSE power_curves_result(data, period_label)

power_curves_response(data, period_label) ==
    IF data = None \/ Len(data) = 0
    THEN build_response(
            [power_curve |-> <<>>, period |-> period_label],
            None,
            [message |-> "No power curve data available for " \o period_label
                \o ". Complete some rides with power to build your power curve."],
            None)
    ELSE power_curves_result(data, period_label)

hr_curves_response(data, period_label) ==
    IF data = None \/ Len(data) = 0
    THEN build_response(
            [hr_curve |-> <<>>, period |-> period_label],
            None,
            [message |-> "No HR curve data available for " \o period_label
                \o ". Complete some activities with heart rate to build your HR curve."],
            None)
    ELSE build_response(
            [period |-> period_label,
             peak_efforts |-> hr_peak_efforts(data),
             summary |-> hr_summary(data)]
                @@ Opt(hr_zones(data) # None, "hr_zones", hr_zones(data)),
            None, None, Some("hr_curves"))

pace_curves_response(data, period_label, use_gap) ==
    IF data = None \/ Len(data) = 0
    THEN build_response(
            [pace_curve |-> <<>>, period |-> period_label, gap_enabled |-> use_gap],
            None,
            [message |-> "No pace curve data available for " \o period_label
                \o ". Complete some runs/swims to build your pace curve."],
            None)
    ELSE build_response(
            [period |-> period_label,
             peak_efforts |-> pace_peak_efforts(data),
             summary |-> pace_summary(data, use_gap)],
            None, None, Some("pace_curves"))

----------------------------------------------------------------------------
(* State machine *)

Init ==
    /\ pc = "idle"
    /\ tool = ""
    /\ args = None
    /\ request = None
    /\ api_resp = None
    /\ result = None
    /\ ctx_state = EmptyDict

\* The message carried by the ICUAPIError the client raises.
ApiErrorMessage == "API request failed"

\* The text of any other exception raised in a tool body.
OtherErrorText == "boom"

\* The tools of gear.py.
GearTools ==
    {"get_gear_list", "update_gear", "create_gear_reminder", "update_gear_reminder"}

\* The tool function raised instead of returning (the exception reaches the host).
Raised(exception) == [raised |-> exception]

\* The exception a collaborator raised, with its message.
Exception(kind) ==
    [raised |-> kind,
     message |-> IF kind = "ICUAPIError" THEN ApiErrorMessage ELSE OtherErrorText]

\* The client raises while the tool awaits it.
client_raises(kind) ==
    /\ pc = "await_api"
    /\ pc' = "except"
    /\ api_resp' = Exception(kind)
    /\ UNCHANGED <<ctx_state, tool, args, request, result>>

\* The except clauses propagating the API error instead of returning.
except_clauses_propagates(t, e) ==
    IF e.raised = "ICUAPIError"
    THEN Raised(e.raised)
    ELSE build_error_response("Unexpected error: " \o e.message,
                              "internal_error", None)

\* The except clauses with the catch-all of gear.py as in the other files.
except_clauses_all_internal(t, e) ==
    IF e.raised = "ICUAPIError"
    THEN build_error_response(e.message, "api_error", None)
    ELSE build_error_response("Unexpected error: " \o e.message,
                              "internal_error", None)

\* The except clauses of a tool: `except ICUAPIError as e` returns e.message
\* as an api_error; the catch-all of the tools of gear.py differs from that
\* of the others.
except_clauses(t, e) ==
    IF e.raised = "ICUAPIError"
    THEN build_error_response(e.message, "api_error",
            IF t = "get_athlete_profile"
            THEN <<"Check your API key and athlete ID configuration">>
            ELSE None)
    ELSE IF t \in GearTools
    THEN build_error_response(e.message, "unexpected_error", None)
    ELSE build_error_response("Unexpected error: " \o e.message,
                              "internal_error", None)

\* The tool catches the exception of the client and returns an envelope.
tool_catches ==
    /\ pc = "except"
    /\ pc' = "done"
    /\ result' = except_clauses(tool, api_resp)
    /\ api_resp' = None
    /\ UNCHANGED <<ctx_state, tool, args, request>>

\* The host takes the returned envelope; the call is over.
tool_returns ==
    /\ pc = "done"
    /\ pc' = "idle"
    /\ tool' = ""
    /\ args' = None
    /\ request' = None
    /\ api_resp' = None
    /\ result' = None
    /\ ctx_state' = EmptyDict

----------------------------------------------------------------------------
(* get_power_curves, get_hr_curves, get_pace_curves *)

CurveTools == {"get_power_curves", "get_hr_curves", "get_pace_curves"}

invalid_time_period ==
    build_error_response("Invalid time_period. Use 'week', 'month', 'year', or 'all'",
                         "validation_error", None)

\* Entry of a curve tool up to the await of the client call.
get_power_curves_call(a) ==
    /\ pc = "idle"
    /\ tool' = "get_power_curves"
    /\ args' = a
    /\ api_resp' = None
    /\ UNCHANGED ctx_state
    /\ IF date_range(a.days_back, a.time_period).valid
       THEN /\ pc' = "await_api"
            /\ request' = [call |-> "get_power_curves",
                           oldest |-> date_range(a.days_back, a.time_period).oldest]
            /\ result' = None
       ELSE /\ pc' = "done"
            /\ request' = None
            /\ result' = invalid_time_period

get_hr_curves_call(a) ==
    /\ pc = "idle"
    /\ tool' = "get_hr_curves"
    /\ args' = a
    /\ api_resp' = None
    /\ UNCHANGED ctx_state
    /\ IF date_range(a.days_back, a.time_period).valid
       THEN /\ pc' = "await_api"
            /\ request' = [call |-> "get_hr_curves",
                           oldest |-> date_range(a.days_back, a.time_period).oldest]
            /\ result' = None
       ELSE /\ pc' = "done"
            /\ request' = None
            /\ result' = invalid_time_period

get_pace_curves_call(a, use_gap) ==
    /\ pc = "idle"
    /\ tool' = "get_pace_curves"
    /\ args' = a @@ [use_gap |-> use_gap]
    /\ api_resp' = None
    /\ UNCHANGED ctx_state
    /\ IF date_range(a.days_back, a.time_period).valid
       THEN /\ pc' = "await_api"
            /\ request' = [call |-> "get_pace_curves",
                           oldest |-> date_range(a.days_back, a.time_period).oldest,
                           use_gap |-> use_gap]
            /\ result' = None
       ELSE /\ pc' = "done"
            /\ request' = None
            /\ result' = invalid_time_period

\* The points the client may return for a curve tool.
CurvePointsOf(t) ==
    IF t = "get_power_curves" THEN PowerPoints
    ELSE IF t = "get_hr_curves" THEN HrPoints
    ELSE PacePoints

\* The client answers a curve request with a curve whose data is d.
client_returns_curve(d) ==
    /\ pc = "await_api"
    /\ tool \in CurveTools
    /\ pc' = "body"
    /\ api_resp' = [data |-> d]
    /\ UNCHANGED <<ctx_state, tool, args, request, result>>

\* The rest of each curve tool, from the client's answer to the return.
get_power_curves_body ==
    /\ pc = "body"
    /\ tool = "get_power_curves"
    /\ pc' = "done"
    /\ result' = power_curves_response(api_resp.data,
                    date_range(args.days_back, args.time_period).period_label)
    /\ UNCHANGED <<ctx_state, tool, args, request, api_resp>>

get_hr_curves_body ==
    /\ pc = "body"
    /\ tool = "get_hr_curves"
    /\ pc' = "done"
    /\ result' = hr_curves_response(api_resp.data,
                    date_range(args.days_back, args.time_period).period_label)
    /\ UNCHANGED <<ctx_state, tool, args, request, api_resp>>

get_pace_curves_body ==
    /\ pc = "body"
    /\ tool = "get_pace_curves"
    /\ pc' = "done"
    /\ result' = pace_curves_response(api_resp.data,
                    date_range(args.days_back, args.time_period).period_label,
                    args.use_gap)
    /\ UNCHANGED <<ctx_state, tool, args, request, api_resp>>

NextCurves ==
    \/ \E a \in PeriodArgs : get_power_curves_call(a)
    \/ \E a \in PeriodArgs : get_hr_curves_call(a)
    \/ \E a \in PeriodArgs, use_gap \in BOOLEAN : get_pace_curves_call(a, use_gap)
    \/ \E d \in BoundedSeq(CurvePointsOf(tool), MaxCurveLen) : client_returns_curve(d)
    \/ \E kind \in {"ICUAPIError", "Exception"} : client_raises(kind)
    \/ tool_catches
    \/ get_power_curves_body
    \/ get_hr_curves_body
    \/ get_pace_curves_body
    \/ tool_returns

SpecCurves == Init /\ [][NextCurves]_vars

----------------------------------------------------------------------------
(* Properties of the curve tools *)

\* The key_durations table of a curve tool.
KeyDurationsOf(t) ==
    IF t = "get_power_curves" THEN power_key_durations
    ELSE IF t = "get_hr_curves" THEN hr_key_durations
    ELSE pace_key_durations

\* The effort a curve tool reports for a point.
EffortOf(t, p) ==
    IF t = "get_power_curves" THEN power_effort(p)
    ELSE IF t = "get_hr_curves" THEN hr_effort(p)
    ELSE pace_effort(p)

\* A curve tool has returned after the client answered with a non-empty curve.
CurveDone ==
    /\ pc = "done"
    /\ tool \in CurveTools
    /\ api_resp # None
    /\ api_resp.data # <<>>

\* A curve tool has returned after the client answered with an empty curve.
EmptyCurveDone ==
    /\ pc = "done"
    /\ tool \in CurveTools
    /\ api_resp # None
    /\ api_resp.data = <<>>

\* The distance of the nearest point of a non-empty curve to a target.
NearestDistance(data, T) ==
    MinOf({ Abs(data[i].secs - T) : i \in 1..Len(data) })

\* The first index of a non-empty curve at the nearest distance to a target.
FirstNearest(data, T) ==
    MinOf({ i \in 1..Len(data) : Abs(data[i].secs - T) = NearestDistance(data, T) })

\* C1: for a non-empty curve and every target T with label L, L is in
\* peak_efforts exactly when the nearest point is within 10% of T (bound
\* included); then its duration_seconds is the secs of a nearest point and the
\* entry is an effort, not null.
C1_PeakEffortTolerance ==
    CurveDone =>
        /\ IsSuccess(result)
        /\ "peak_efforts" \in DOMAIN result.data
        /\ \A k \in 1..Len(KeyDurationsOf(tool)) :
            LET T == KeyDurationsOf(tool)[k][1]
                L == KeyDurationsOf(tool)[k][2]
                peak_efforts == result.data.peak_efforts
                data == api_resp.data
            IN  /\ L \in DOMAIN peak_efforts <=> 10 * NearestDistance(data, T) <= T
                /\ L \in DOMAIN peak_efforts =>
                    /\ peak_efforts[L] # None
                    /\ Abs(peak_efforts[L].duration_seconds - T) = NearestDistance(data, T)
                    /\ \E i \in 1..Len(data) :
                        data[i].secs = peak_efforts[L].duration_seconds

\* C1 witness: the nearest point to 60 s is exactly 6 s away and is reported,
\* while no point is within 0.5 s of 5 s and 5_sec is absent.
C1_Witness ==
    /\ CurveDone
    /\ tool = "get_power_curves"
    /\ Len(api_resp.data) = 2
    /\ NearestDistance(api_resp.data, 60) = 6
    /\ NearestDistance(api_resp.data, 5) = 1
    /\ "1_min" \in DOMAIN result.data.peak_efforts
    /\ "5_sec" \notin DOMAIN result.data.peak_efforts

\* C2: when several points are equally near a target, the reported effort is
\* that of the first of them in the order the client returned them.
C2_FirstMinimalWins ==
    CurveDone =>
        \A k \in 1..Len(KeyDurationsOf(tool)) :
            LET T == KeyDurationsOf(tool)[k][1]
                L == KeyDurationsOf(tool)[k][2]
                data == api_resp.data
            IN  L \in DOMAIN result.data.peak_efforts =>
                    result.data.peak_efforts[L]
                        = EffortOf(tool, data[FirstNearest(data, T)])

\* C2 witness: 66 s and then 54 s are both 6 s from 60 s; the 66 s point,
\* first in the input, is the one reported.
C2_Witness ==
    /\ CurveDone
    /\ tool = "get_hr_curves"
    /\ Len(api_resp.data) = 2
    /\ api_resp.data[1].secs = 66
    /\ api_resp.data[2].secs = 54
    /\ result.data.peak_efforts["1_min"].duration_seconds = 66

\* The key of the empty curve list in the envelope of a curve tool.
EmptyCurveKey(t) ==
    IF t = "get_power_curves" THEN "power_curve"
    ELSE IF t = "get_hr_curves" THEN "hr_curve"
    ELSE "pace_curve"

\* C3 as stated: for an empty curve the success envelope carries a
\* peak-effort mapping that has no label in it.
C3_Original ==
    EmptyCurveDone =>
        /\ IsSuccess(result)
        /\ "peak_efforts" \in DOMAIN result.data
        /\ DOMAIN result.data.peak_efforts = {}

\* C3 amended: for an empty curve the tool returns a success envelope with no
\* peak_efforts key at all (so no label for any target): its data is the empty
\* curve list and the period, and a metadata message says there is no data.
C3_EmptyCurveEnvelope ==
    EmptyCurveDone =>
        /\ IsSuccess(result)
        /\ ~IsError(result)
        /\ "peak_efforts" \notin DOMAIN result.data
        /\ result.data[EmptyCurveKey(tool)] = <<>>
        /\ "period" \in DOMAIN result.data
        /\ "metadata" \in DOMAIN result
        /\ "message" \in DOMAIN result.metadata

\* C3 witness: get_pace_curves has returned for an empty curve.
C3_Witness ==
    /\ EmptyCurveDone
    /\ tool = "get_pace_curves"
    /\ IsSuccess(result)

----------------------------------------------------------------------------
(* get_athlete_profile, get_fitness_summary *)

\* Largest magnitude of the tsb and of the ramp_rate the remote API returns
\* in the model (whole numbers, so round(x, 1) leaves them as they are).
MaxTsb == 32

MaxRamp == 10

OptionalValues(S) == {None} \cup { Some(v) : v \in S }

\* The athlete records the client may return: one profile, every combination
\* of present and absent fitness metrics.
Athletes ==
    { [id |-> "i123456", name |-> "Test Athlete", email |-> Some("test@example.com"),
       sex |-> None, dob |-> None, weight |-> Some(70),
       ctl |-> ctl, atl |-> atl, tsb |-> tsb, ramp_rate |-> ramp_rate,
       sport_settings |->
           << [type |-> Some("Run"), ftp |-> None, fthr |-> Some(170),
               pace_threshold |-> Some(285), swim_threshold |-> None] >>] :
        ctl \in OptionalValues({50}), atl \in OptionalValues({60}),
        tsb \in OptionalValues(-MaxTsb..MaxTsb),
        ramp_rate \in OptionalValues(-MaxRamp..MaxRamp) }

\* round(x, 1) of a whole number.
round1(x) == x

\* The form branch of get_athlete_profile with >= in place of > at 5.
profile_form_ge(tsb) ==
    IF tsb > 20
    THEN [form_status |-> "very_fresh", form_description |-> "Very fresh - good for racing"]
    ELSE IF tsb >= 5
    THEN [form_status |-> "recovered",
          form_description |-> "Recovered and ready for hard training"]
    ELSE IF tsb > -10
    THEN [form_status |-> "optimal",
          form_description |-> "Optimal zone - productive training possible"]
    ELSE IF tsb > -30
    THEN [form_status |-> "fatigued",
          form_description |-> "Accumulating fatigue - recovery may be needed"]
    ELSE [form_status |-> "very_fatigued",
          form_description |-> "High fatigue - prioritize recovery"]

\* athlete.py 86-100: the form entries of get_athlete_profile for a present tsb.
profile_form(tsb) ==
    IF tsb > 20
    THEN [form_status |-> "very_fresh", form_description |-> "Very fresh - good for racing"]
    ELSE IF tsb > 5
    THEN [form_status |-> "recovered",
          form_description |-> "Recovered and ready for hard training"]
    ELSE IF tsb > -10
    THEN [form_status |-> "optimal",
          form_description |-> "Optimal zone - productive training possible"]
    ELSE IF tsb > -30
    THEN [form_status |-> "fatigued",
          form_description |-> "Accumulating fatigue - recovery may be needed"]
    ELSE [form_status |-> "very_fatigued",
          form_description |-> "High fatigue - prioritize recovery"]

\* athlete.py 103-123: the ramp-rate entries of get_athlete_profile.
profile_ramp(ramp_rate) ==
    IF ramp_rate > 8
    THEN [ramp_rate_status |-> "high_risk",
          ramp_rate_warning |-> "Fitness increasing too fast - reduce training load"]
    ELSE IF ramp_rate > 5
    THEN [ramp_rate_status |-> "caution",
          ramp_rate_warning |-> "Fitness increasing rapidly - monitor fatigue closely"]
    ELSE IF ramp_rate > 0
    THEN [ramp_rate_status |-> "good",
          ramp_rate_description |-> "Sustainable fitness gain"]
    ELSE IF ramp_rate > -5
    THEN [ramp_rate_status |-> "declining",
          ramp_rate_description |-> "Fitness slightly declining (taper/recovery)"]
    ELSE [ramp_rate_status |-> "declining_significantly",
          ramp_rate_description |-> "Fitness declining significantly"]

\* The analysis of get_athlete_profile testing the metrics for truth, so that
\* a metric of 0 counts as absent.
profile_analysis_truthy(athlete) ==
    (IF TruthyNum(athlete.tsb) THEN profile_form(Val(athlete.tsb)) ELSE EmptyDict)
        @@ (IF TruthyNum(athlete.ramp_rate)
            THEN profile_ramp(Val(athlete.ramp_rate)) ELSE EmptyDict)

\* athlete.py 84-123: the analysis dict of get_athlete_profile.
profile_analysis(athlete) ==
    (IF athlete.tsb # None THEN profile_form(Val(athlete.tsb)) ELSE EmptyDict)
        @@ (IF athlete.ramp_rate # None
            THEN profile_ramp(Val(athlete.ramp_rate)) ELSE EmptyDict)

\* athlete.py 46-54: the fitness dict of get_athlete_profile.
profile_fitness(athlete) ==
    Opt(athlete.ctl # None, "ctl", round1(Val(athlete.ctl)))
        @@ Opt(athlete.atl # None, "atl", round1(Val(athlete.atl)))
        @@ Opt(athlete.tsb # None, "tsb", round1(Val(athlete.tsb)))
        @@ Opt(athlete.ramp_rate # None, "ramp_rate", round1(Val(athlete.ramp_rate)))

\* athlete.py 60-74: one entry of the sports list.
sport_data(sport) ==
    Opt(TruthyStr(sport.type), "type", Val(sport.type))
        @@ Opt(TruthyNum(sport.ftp), "ftp", Val(sport.ftp))
        @@ Opt(TruthyNum(sport.fthr), "fthr", Val(sport.fthr))
        @@ (IF TruthyNum(sport.pace_threshold)
            THEN [pace_threshold_seconds |-> Val(sport.pace_threshold),
                  pace_threshold_formatted |->
                      ToString(Val(sport.pace_threshold) \div 60) \o ":"
                          \o fmt_02d(Val(sport.pace_threshold) % 60) \o " /km"]
            ELSE EmptyDict)
        @@ Opt(TruthyNum(sport.swim_threshold), "swim_threshold",
               Val(sport.swim_threshold))

\* athlete.py 31-43: the profile dict.
profile_data(athlete) ==
    [id |-> athlete.id, name |-> athlete.name]
        @@ Opt(TruthyStr(athlete.email), "email", Val(athlete.email))
        @@ Opt(TruthyStr(athlete.sex), "sex", Val(athlete.sex))
        @@ Opt(TruthyStr(athlete.dob), "dob", Val(athlete.dob))
        @@ Opt(TruthyNum(athlete.weight), "weight_kg", Val(athlete.weight))

\* athlete.py 28-129: the envelope of get_athlete_profile for the client's answer.
athlete_profile_response(athlete) ==
    build_response(
        [profile |-> profile_data(athlete), fitness |-> profile_fitness(athlete)]
            @@ Opt(athlete.sport_settings # None /\ athlete.sport_settings # <<>>,
                   "sports",
                   [i \in 1..Len(athlete.sport_settings) |->
                        sport_data(athlete.sport_settings[i])]),
        IF profile_analysis(athlete) # EmptyDict THEN profile_analysis(athlete) ELSE None,
        None,
        Some("athlete_profile"))

\* athlete.py 204-220: the form entries of get_fitness_summary for a present tsb.
summary_form(tsb) ==
    IF tsb > 20
    THEN [form_status |-> "very_fresh",
          form_interpretation |-> "You're very fresh - good for racing!"]
    ELSE IF tsb > 5
    THEN [form_status |-> "recovered",
          form_interpretation |-> "You're recovered and ready for hard training"]
    ELSE IF tsb > -10
    THEN [form_status |-> "optimal",
          form_interpretation |-> "Optimal zone - productive training possible"]
    ELSE IF tsb > -30
    THEN [form_status |-> "fatigued",
          form_interpretation |-> "You're accumulating fatigue - recovery may be needed"]
    ELSE [form_status |-> "very_fatigued",
          form_interpretation |-> "High fatigue - prioritize recovery"]

\* The ramp-rate branch of get_fitness_summary with >= in place of > at 8.
summary_ramp_ge(ramp_rate) ==
    IF ramp_rate >= 8
    THEN [ramp_rate_status |-> "high_risk",
          ramp_rate_interpretation |-> "Fitness increasing too fast",
          ramp_rate_warning |-> "Reduce training load to avoid overtraining"]
    ELSE IF ramp_rate > 5
    THEN [ramp_rate_status |-> "caution",
          ramp_rate_interpretation |-> "Fitness increasing rapidly",
          ramp_rate_warning |-> "Monitor fatigue and recovery closely"]
    ELSE IF ramp_rate > 0
    THEN [ramp_rate_status |-> "good",
          ramp_rate_interpretation |-> "Sustainable fitness gain"]
    ELSE IF ramp_rate > -5
    THEN [ramp_rate_status |-> "declining",
          ramp_rate_interpretation |-> "Fitness slightly declining (taper/recovery)"]
    ELSE [ramp_rate_status |-> "declining_significantly",
          ramp_rate_interpretation |-> "Fitness declining significantly"]

\* athlete.py 224-242: the ramp-rate entries of get_fitness_summary.
summary_ramp(ramp_rate) ==
    IF ramp_rate > 8
    THEN [ramp_rate_status |-> "high_risk",
          ramp_rate_interpretation |-> "Fitness increasing too fast",
          ramp_rate_warning |-> "Reduce training load to avoid overtraining"]
    ELSE IF ramp_rate > 5
    THEN [ramp_rate_status |-> "caution",
          ramp_rate_interpretation |-> "Fitness increasing rapidly",
          ramp_rate_warning |-> "Monitor fatigue and recovery closely"]
    ELSE IF ramp_rate > 0
    THEN [ramp_rate_status |-> "good",
          ramp_rate_interpretation |-> "Sustainable fitness gain"]
    ELSE IF ramp_rate > -5
    THEN [ramp_rate_status |-> "declining",
          ramp_rate_interpretation |-> "Fitness slightly declining (taper/recovery)"]
    ELSE [ramp_rate_status |-> "declining_significantly",
          ramp_rate_interpretation |-> "Fitness declining significantly"]

\* athlete.py 245-262: the recommendations list (empty unless both metrics
\* are present).
recommendations(athlete) ==
    IF athlete.tsb # None /\ athlete.ramp_rate # None
    THEN IF Val(athlete.tsb) < -30
         THEN <<"Take an easy week or rest days",
                "Focus on recovery and low-intensity activities">>
         ELSE IF Val(athlete.tsb) < -10 /\ Val(athlete.ramp_rate) > 5
         THEN <<"Balance hard training with recovery",
                "Consider a recovery week soon">>
         ELSE IF Val(athlete.tsb) > 5
         THEN IF Val(athlete.ramp_rate) < 0
              THEN <<"Good time to increase training load",
                     "Consider adding volume or intensity">>
              ELSE <<"You're fresh and can handle hard workouts",
                     "Good time for races or breakthrough sessions">>
         ELSE <<"Continue current training approach",
                "Mix hard sessions with recovery days">>
    ELSE <<>>

\* athlete.py 199-265: the analysis dict of get_fitness_summary.
summary_analysis(athlete) ==
    (IF athlete.tsb # None THEN summary_form(Val(athlete.tsb)) ELSE EmptyDict)
        @@ (IF athlete.ramp_rate # None
            THEN summary_ramp(Val(athlete.ramp_rate)) ELSE EmptyDict)
        @@ Opt(recommendations(athlete) # <<>>, "recommendations",
               recommendations(athlete))

\* The fitness dict leaving out the metrics that are zero.
summary_fitness_truthy(athlete) ==
    Opt(TruthyNum(athlete.ctl), "ctl", [value |-> round1(Val(athlete.ctl))])
    @@ Opt(TruthyNum(athlete.atl), "atl", [value |-> round1(Val(athlete.atl))])
    @@ Opt(TruthyNum(athlete.tsb), "tsb", [value |-> round1(Val(athlete.tsb))])
    @@ Opt(TruthyNum(athlete.ramp_rate), "ramp_rate",
           [value |-> round1(Val(athlete.ramp_rate))])

\* athlete.py 174-197: the fitness dict of get_fitness_summary.
summary_fitness(athlete) ==
    Opt(athlete.ctl # None, "ctl",
        [value |-> round1(Val(athlete.ctl)),
         description |-> "Chronic Training Load (Fitness)",
         explanation |-> "Long-term training load (42-day weighted average)"])
    @@ Opt(athlete.atl # None, "atl",
        [value |-> round1(Val(athlete.atl)),
         description |-> "Acute Training Load (Fatigue)",
         explanation |-> "Short-term training load (7-day weighted average)"])
    @@ Opt(athlete.tsb # None, "tsb",
        [value |-> round1(Val(athlete.tsb)),
         description |-> "Training Stress Balance (Form)",
         explanation |-> "Fitness - Fatigue"])
    @@ Opt(athlete.ramp_rate # None, "ramp_rate",
        [value |-> round1(Val(athlete.ramp_rate)),
         description |-> "Rate of fitness change (CTL increase per week)"])

\* get_fitness_summary with the analysis key always emitted.
fitness_summary_response_keeps_empty(athlete) ==
    IF athlete.ctl = None /\ athlete.atl = None
    THEN build_error_response(
            "No fitness data available. Complete some activities to build your fitness history.",
            "no_data", None)
    ELSE [data |-> [athlete_name |-> athlete.name,
                    fitness_metrics |-> summary_fitness(athlete)],
          analysis |-> summary_analysis(athlete),
          query_type |-> "fitness_summary"]

\* get_fitness_summary whose no_data answer also carries the fitness data.
fitness_summary_response_error_with_data(athlete) ==
    IF athlete.ctl = None /\ athlete.atl = None
    THEN build_error_response(
            "No fitness data available. Complete some activities to build your fitness history.",
            "no_data", None)
         @@ [data |-> [athlete_name |-> athlete.name,
                       fitness_metrics |-> summary_fitness(athlete)]]
    ELSE build_response(
            [athlete_name |-> athlete.name, fitness_metrics |-> summary_fitness(athlete)],
            summary_analysis(athlete),
            None,
            Some("fitness_summary"))

\* athlete.py 165-276: the envelope of get_fitness_summary for the client's answer.
fitness_summary_response(athlete) ==
    IF athlete.ctl = None /\ athlete.atl = None
    THEN build_error_response(
            "No fitness data available. Complete some activities to build your fitness history.",
            "no_data", None)
    ELSE build_response(
            [athlete_name |-> athlete.name, fitness_metrics |-> summary_fitness(athlete)],
            summary_analysis(athlete),
            None,
            Some("fitness_summary"))

AthleteTools == {"get_athlete_profile", "get_fitness_summary"}

\* Entry of an athlete tool up to the await of client.get_athlete().
get_athlete_profile_call ==
    /\ pc = "idle"
    /\ pc' = "await_api"
    /\ tool' = "get_athlete_profile"
    /\ args' = None
    /\ request' = [call |-> "get_athlete"]
    /\ UNCHANGED <<ctx_state, api_resp, result>>

get_fitness_summary_call ==
    /\ pc = "idle"
    /\ pc' = "await_api"
    /\ tool' = "get_fitness_summary"
    /\ args' = None
    /\ request' = [call |-> "get_athlete"]
    /\ UNCHANGED <<ctx_state, api_resp, result>>

\* The client answers get_athlete() with an athlete record.
client_returns_athlete(athlete) ==
    /\ pc = "await_api"
    /\ tool \in AthleteTools
    /\ pc' = "body"
    /\ api_resp' = athlete
    /\ UNCHANGED <<ctx_state, tool, args, request, result>>

get_athlete_profile_body ==
    /\ pc = "body"
    /\ tool = "get_athlete_profile"
    /\ pc' = "done"
    /\ result' = athlete_profile_response(api_resp)
    /\ UNCHANGED <<ctx_state, tool, args, request, api_resp>>

get_fitness_summary_body ==
    /\ pc = "body"
    /\ tool = "get_fitness_summary"
    /\ pc' = "done"
    /\ result' = fitness_summary_response(api_resp)
    /\ UNCHANGED <<ctx_state, tool, args, request, api_resp>>

NextAthlete ==
    \/ get_athlete_profile_call
    \/ get_fitness_summary_call
    \/ \E athlete \in Athletes : client_returns_athlete(athlete)
    \/ \E kind \in {"ICUAPIError", "Exception"} : client_raises(kind)
    \/ tool_catches
    \/ get_athlete_profile_body
    \/ get_fitness_summary_body
    \/ tool_returns

SpecAthlete == Init /\ [][NextAthlete]_vars

----------------------------------------------------------------------------
(* Properties of the athlete tools *)

\* The analysis of an envelope (empty when the envelope carries none).
AnalysisOf(env) == IF "analysis" \in DOMAIN env THEN env.analysis ELSE EmptyDict

\* An athlete tool has returned a success envelope for the client's answer.
AthleteDone ==
    /\ pc = "done"
    /\ tool \in AthleteTools
    /\ api_resp # None
    /\ IsSuccess(result)

FormStatuses == {"very_fresh", "recovered", "optimal", "fatigued", "very_fatigued"}

RampStatuses == {"high_risk", "caution", "good", "declining", "declining_significantly"}

\* C4: for a present tsb both tools report one of the five form statuses,
\* very_fresh iff tsb > 20, recovered iff 5 < tsb <= 20, optimal iff
\* -10 < tsb <= 5, fatigued iff -30 < tsb <= -10, very_fatigued iff tsb <= -30,
\* and the two tools give the same status for the same tsb.
C4_FormLadder ==
    (AthleteDone /\ api_resp.tsb # None) =>
        LET tsb == Val(api_resp.tsb)
            analysis == AnalysisOf(result)
        IN  /\ "form_status" \in DOMAIN analysis
            /\ analysis.form_status \in FormStatuses
            /\ analysis.form_status = "very_fresh" <=> tsb > 20
            /\ analysis.form_status = "recovered" <=> (5 < tsb /\ tsb <= 20)
            /\ analysis.form_status = "optimal" <=> (-10 < tsb /\ tsb <= 5)
            /\ analysis.form_status = "fatigued" <=> (-30 < tsb /\ tsb <= -10)
            /\ analysis.form_status = "very_fatigued" <=> tsb <= -30
            /\ profile_analysis(api_resp).form_status
                   = summary_analysis(api_resp).form_status

\* C4 witness: get_athlete_profile classifies the boundary tsb = 5 as optimal.
C4_Witness ==
    /\ AthleteDone
    /\ tool = "get_athlete_profile"
    /\ api_resp.tsb = Some(5)
    /\ result.analysis.form_status = "optimal"

\* C5: for a present ramp_rate both tools report high_risk iff ramp_rate > 8,
\* caution iff 5 < ramp_rate <= 8, good iff 0 < ramp_rate <= 5, declining iff
\* -5 < ramp_rate <= 0, declining_significantly iff ramp_rate <= -5.
C5_RampLadder ==
    (AthleteDone /\ api_resp.ramp_rate # None) =>
        LET ramp_rate == Val(api_resp.ramp_rate)
            analysis == AnalysisOf(result)
        IN  /\ "ramp_rate_status" \in DOMAIN analysis
            /\ analysis.ramp_rate_status \in RampStatuses
            /\ analysis.ramp_rate_status = "high_risk" <=> ramp_rate > 8
            /\ analysis.ramp_rate_status = "caution" <=> (5 < ramp_rate /\ ramp_rate <= 8)
            /\ analysis.ramp_rate_status = "good" <=> (0 < ramp_rate /\ ramp_rate <= 5)
            /\ analysis.ramp_rate_status = "declining"
                   <=> (-5 < ramp_rate /\ ramp_rate <= 0)
            /\ analysis.ramp_rate_status = "declining_significantly" <=> ramp_rate <= -5

\* C5 witness: get_fitness_summary reports high_risk for a ramp_rate of 10.
C5_Witness ==
    /\ AthleteDone
    /\ tool = "get_fitness_summary"
    /\ api_resp.ramp_rate = Some(10)
    /\ result.analysis.ramp_rate_status = "high_risk"

----------------------------------------------------------------------------
(* get_activities_around *)

\* Most activities the client returns in the model; their ids are a1, a2, ...
MaxActivities == 3

ActivityIds == { "a" \o ToString(i) : i \in 1..MaxActivities }

\* start_date_local values, as day numbers.
Days == {1, 2, 3}

\* The reference ids asked for: the ids of the model and one no activity has.
ReferenceIds == ActivityIds \cup {"missing"}

\* The activity with an id and a start date; the other fields follow the id.
ActivityOf(id, day) ==
    [id |-> id,
     name |-> IF id = "a1" THEN None ELSE Some("Ride " \o id),
     type |-> "Ride",
     start_date_local |-> day,
     distance |-> IF id = "a2" THEN Some(0) ELSE Some(20000),
     moving_time |-> Some(3600),
     icu_training_load |-> IF id = "a1" THEN None ELSE Some(80),
     average_watts |-> IF id = "a1" THEN Some(200) ELSE None,
     average_heartrate |-> IF id = "a2" THEN None ELSE Some(140)]

\* The lists the client may return: up to MaxActivities activities with
\* distinct ids, in any order, on any days.
ActivityLists ==
    { [i \in 1..Len(ids) |-> ActivityOf(ids[i], days[i])] :
        <<ids, days>> \in
            UNION { { <<f, g>> : f \in { h \in [1..n -> ActivityIds] :
                                           \A i, j \in 1..n : h[i] = h[j] => i = j },
                                 g \in [1..n -> Days] } : n \in 0..MaxActivities } }

\* list.sort(key=lambda x: x.start_date_local): a stable sort, here by
\* inserting each element after the elements that are not later than it.
RECURSIVE InsertByDate(_, _)
InsertByDate(sorted, x) ==
    IF sorted = <<>> THEN <<x>>
    ELSE IF sorted[Len(sorted)].start_date_local <= x.start_date_local
    THEN Append(sorted, x)
    ELSE Append(InsertByDate(SubSeq(sorted, 1, Len(sorted) - 1), x), sorted[Len(sorted)])

RECURSIVE SortPrefix(_, _)
SortPrefix(list, n) ==
    IF n = 0 THEN <<>> ELSE InsertByDate(SortPrefix(list, n - 1), list[n])

\* The list reversed in place instead of sorted.
sort_by_start_date_reverses(list) ==
    [i \in 1..Len(list) |-> list[Len(list) + 1 - i]]

sort_by_start_date(list) == SortPrefix(list, Len(list))

\* next((i for i, a in enumerate(activities) if a.id == activity_id), None):
\* the zero-based index of the first activity with the id, or None.
ref_index(activities, activity_id) ==
    IF \E i \in 1..Len(activities) : activities[i].id = activity_id
    THEN Some(MinOf({ i \in 1..Len(activities) : activities[i].id = activity_id }) - 1)
    ELSE None

\* The position entries with the comparison of the indices reversed.
position_of_swapped(i, activity, activity_id, ref) ==
    IF activity.id = activity_id
    THEN [is_reference |-> TRUE]
    ELSE IF ref # None
    THEN IF i > Val(ref)
         THEN [position |-> "before", days_before |-> Val(ref) - i]
         ELSE [position |-> "after", days_after |-> i - Val(ref)]
    ELSE EmptyDict

\* activities.py 795-804: the position entries of the activity at zero-based
\* index i, for the reference index ref.
position_of(i, activity, activity_id, ref) ==
    IF activity.id = activity_id
    THEN [is_reference |-> TRUE]
    ELSE IF ref # None
    THEN IF i < Val(ref)
         THEN [position |-> "before", days_before |-> Val(ref) - i]
         ELSE [position |-> "after", days_after |-> i - Val(ref)]
    ELSE EmptyDict

\* activities.py 815-821: the performance dict of an activity.
performance(activity) ==
    Opt(TruthyNum(activity.average_watts), "average_watts", Val(activity.average_watts))
        @@ Opt(TruthyNum(activity.average_heartrate), "average_heartrate",
               Val(activity.average_heartrate))

\* activities.py 788-823: one entry of activities_data.
activity_item(i, activity, activity_id, ref) ==
    [id |-> activity.id,
     name |-> IF TruthyStr(activity.name) THEN Val(activity.name) ELSE "Untitled",
     type |-> activity.type,
     start_date |-> activity.start_date_local]
        @@ position_of(i, activity, activity_id, ref)
        @@ Opt(TruthyNum(activity.distance), "distance_meters", Val(activity.distance))
        @@ Opt(TruthyNum(activity.moving_time), "moving_time_seconds",
               Val(activity.moving_time))
        @@ Opt(TruthyNum(activity.icu_training_load), "training_load",
               Val(activity.icu_training_load))
        @@ Opt(performance(activity) # EmptyDict, "performance", performance(activity))

\* The aggregate counts with activities_after one too large.
around_counts_off_by_one(activities, ref) ==
    IF ref # None
    THEN [reference_position |-> Val(ref),
          activities_before |-> Val(ref),
          activities_after |-> Len(activities) - Val(ref)]
    ELSE EmptyDict

\* activities.py 831-834: the aggregate counts, present when the reference was found.
around_counts(activities, ref) ==
    IF ref # None
    THEN [reference_position |-> Val(ref),
          activities_before |-> Val(ref),
          activities_after |-> Len(activities) - Val(ref) - 1]
    ELSE EmptyDict

\* The envelope that answers a reference id no activity has with an error.
activities_around_response_not_found(activities, activity_id) ==
    IF ref_index(activities, activity_id) = None
    THEN build_error_response("Reference activity not found", "not_found", None)
    ELSE build_response(
            [reference_activity_id |-> activity_id,
             activities |-> [i \in 1..Len(activities) |->
                 activity_item(i - 1, activities[i], activity_id,
                               ref_index(activities, activity_id))],
             count |-> Len(activities)]
                @@ around_counts(activities, ref_index(activities, activity_id)),
            None, None, Some("activities_around"))

\* activities.py 783-839: the envelope of get_activities_around for the sorted,
\* non-empty list.
activities_around_response(activities, activity_id) ==
    build_response(
        [reference_activity_id |-> activity_id,
         activities |-> [i \in 1..Len(activities) |->
             activity_item(i - 1, activities[i], activity_id,
                           ref_index(activities, activity_id))],
         count |-> Len(activities)]
            @@ around_counts(activities, ref_index(activities, activity_id)),
        None, None, Some("activities_around"))

\* activities.py 770-778: the envelope for an empty answer.
activities_around_empty(activity_id) ==
    build_response(
        [activities |-> <<>>, count |-> 0, reference_activity_id |-> activity_id],
        None,
        [message |-> "No activities found around the reference activity"],
        None)

\* Entry of get_activities_around up to the await of the client call.
get_activities_around_call(activity_id, count) ==
    /\ pc = "idle"
    /\ pc' = "await_api"
    /\ tool' = "get_activities_around"
    /\ args' = [activity_id |-> activity_id, count |-> count]
    /\ request' = [call |-> "get_activities_around", activity_id |-> activity_id,
                   count |-> count]
    /\ UNCHANGED <<ctx_state, api_resp, result>>

\* The client answers with a list of activities.
client_returns_activities(activities) ==
    /\ pc = "await_api"
    /\ tool = "get_activities_around"
    /\ pc' = "body"
    /\ api_resp' = activities
    /\ UNCHANGED <<ctx_state, tool, args, request, result>>

\* The rest of get_activities_around: the list the client returned is sorted
\* in place, then annotated.
get_activities_around_body ==
    /\ pc = "body"
    /\ tool = "get_activities_around"
    /\ pc' = "done"
    /\ IF api_resp = None \/ api_resp = <<>>
       THEN /\ result' = activities_around_empty(args.activity_id)
            /\ api_resp' = api_resp
       ELSE /\ api_resp' = sort_by_start_date(api_resp)
            /\ result' = activities_around_response(sort_by_start_date(api_resp),
                                                    args.activity_id)
    /\ UNCHANGED <<ctx_state, tool, args, request>>

NextAround ==
    \/ \E activity_id \in ReferenceIds : get_activities_around_call(activity_id, 5)
    \/ \E activities \in ActivityLists : client_returns_activities(activities)
    \/ \E kind \in {"ICUAPIError", "Exception"} : client_raises(kind)
    \/ tool_catches
    \/ get_activities_around_body
    \/ tool_returns

SpecAround == Init /\ [][NextAround]_vars

----------------------------------------------------------------------------
(* Properties of get_activities_around *)

\* get_activities_around has returned for a non-empty list of activities.
AroundDone ==
    /\ pc = "done"
    /\ tool = "get_activities_around"
    /\ api_resp # None
    /\ api_resp # <<>>

\* The reference id is the id of one of the returned activities.
ReferenceFound == \E i \in 1..Len(api_resp) : api_resp[i].id = args.activity_id

PositionKeys == {"position", "days_before", "days_after", "is_reference"}

CountKeys == {"reference_position", "activities_before", "activities_after"}

\* C7: the entries are in ascending start date order; with the reference at
\* index r, the reference entry has is_reference = true and no position, an
\* entry at i < r has position "before" and days_before = r - i, an entry at
\* i > r has position "after" and days_after = i - r.
C7_PositionAnnotation ==
    (AroundDone /\ ReferenceFound) =>
        /\ IsSuccess(result)
        /\ LET entries == result.data.activities
               r == CHOOSE i \in 1..Len(entries) : entries[i].id = args.activity_id
           IN  /\ \A i, j \in 1..Len(entries) :
                    i < j => entries[i].start_date <= entries[j].start_date
               /\ DOMAIN entries[r] \cap PositionKeys = {"is_reference"}
               /\ entries[r].is_reference = TRUE
               /\ \A i \in 1..Len(entries) :
                    /\ i < r =>
                        /\ DOMAIN entries[i] \cap PositionKeys = {"position", "days_before"}
                        /\ entries[i].position = "before"
                        /\ entries[i].days_before = r - i
                    /\ i > r =>
                        /\ DOMAIN entries[i] \cap PositionKeys = {"position", "days_after"}
                        /\ entries[i].position = "after"
                        /\ entries[i].days_after = i - r

\* C7 witness: activities of day 1, 2 and 3 with the one of day 2 as the
\* reference: one entry before it and one after it, each one place away.
C7_Witness ==
    /\ AroundDone
    /\ Len(result.data.activities) = 3
    /\ \A i \in 1..3 : result.data.activities[i].start_date = i
    /\ result.data.activities[2].id = args.activity_id
    /\ result.data.activities[1].days_before = 1
    /\ result.data.activities[3].days_after = 1
    /\ "position" \notin DOMAIN result.data.activities[2]

\* C8: with the reference at zero-based index r among n activities the
\* envelope reports reference_position = r, activities_before = r and
\* activities_after = n - r - 1, the numbers of entries annotated "before"
\* and "after".
C8_AggregateCounts ==
    (AroundDone /\ ReferenceFound) =>
        LET entries == result.data.activities
            n == Len(api_resp)
            r == (CHOOSE i \in 1..n : api_resp[i].id = args.activity_id) - 1
            annotated(p) == { i \in 1..Len(entries) :
                                "position" \in DOMAIN entries[i] /\ entries[i].position = p }
        IN  /\ CountKeys \subseteq DOMAIN result.data
            /\ result.data.reference_position = r
            /\ result.data.activities_before = r
            /\ result.data.activities_after = n - r - 1
            /\ result.data.activities_before = Cardinality(annotated("before"))
            /\ result.data.activities_after = Cardinality(annotated("after"))

\* C8 witness: the reference is the second of three activities.
C8_Witness ==
    /\ AroundDone
    /\ Len(api_resp) = 3
    /\ api_resp[2].id = args.activity_id
    /\ result.data.reference_position = 1
    /\ result.data.activities_before = 1
    /\ result.data.activities_after = 1

\* C9: when no activity of a non-empty list has the reference id the tool
\* returns a success envelope that lists every activity, no entry has a
\* position, days_before, days_after or is_reference, and no aggregate count
\* is reported.
C9_ReferenceNotFound ==
    (AroundDone /\ ~ReferenceFound) =>
        /\ IsSuccess(result)
        /\ ~IsError(result)
        /\ Len(result.data.activities) = Len(api_resp)
        /\ \A i \in 1..Len(api_resp) : result.data.activities[i].id = api_resp[i].id
        /\ result.data.count = Len(api_resp)
        /\ \A i \in 1..Len(api_resp) :
            DOMAIN result.data.activities[i] \cap PositionKeys = {}
        /\ DOMAIN result.data \cap CountKeys = {}

\* C9 witness: two activities were returned and neither has the reference id.
C9_Witness ==
    /\ AroundDone
    /\ ~ReferenceFound
    /\ args.activity_id = "missing"
    /\ Len(api_resp) = 2
    /\ Len(result.data.activities) = 2

----------------------------------------------------------------------------
(* get_pace_histogram, get_gap_histogram *)

\* Largest lower bound of a bin, in 1/PaceDen minutes per kilometre, and most
\* bins of a histogram the client returns in the model.
MaxPaceNum == 40

MaxBins == 2

\* A bin from a lower bound, 4/PaceDen minutes wide.
BinOf(v) ==
    [min |-> v, max |-> v + 4, count |-> v + 1,
     secs |-> IF v % 2 = 0 THEN Some(10 * v) ELSE None]

\* Lower bounds of the bins: every 1/PaceDen step from 24/PaceDen min/km.
PaceNums == 24..MaxPaceNum

\* The histograms the client may return: up to MaxBins bins in any order.
Histograms ==
    { [bins |-> [i \in 1..Len(lows) |-> BinOf(lows[i])],
       total_count |-> 100,
       total_secs |-> IF Len(lows) = 1 THEN None ELSE Some(3600)] :
        lows \in BoundedSeq(PaceNums, MaxBins) }

\* activity_analysis.py 525-543: one entry of bins_data of get_pace_histogram.
pace_bin_data(bin_item) ==
    [pace_range |->
        [min_pace_min_per_km |-> bin_item.min,
         max_pace_min_per_km |-> bin_item.max,
         min_pace_formatted |-> format_pace(bin_item.min),
         max_pace_formatted |-> format_pace(bin_item.max)],
     count |-> bin_item.count]
        @@ Opt(bin_item.secs # None, "time_seconds", Val(bin_item.secs))

\* activity_analysis.py 516-556: the envelope of get_pace_histogram.
pace_histogram_response(histogram, activity_id) ==
    IF histogram.bins = None \/ histogram.bins = <<>>
    THEN build_response(
            [histogram |-> <<>>, activity_id |-> activity_id],
            None,
            [message |-> "No pace histogram data available for this activity"],
            None)
    ELSE build_response(
            [activity_id |-> activity_id,
             bins |-> [i \in 1..Len(histogram.bins) |-> pace_bin_data(histogram.bins[i])],
             total_samples |-> histogram.total_count]
                @@ Opt(histogram.total_secs # None, "total_time_seconds",
                       Val(histogram.total_secs)),
            None, None, Some("pace_histogram"))

\* activity_analysis.py 596-614: one entry of bins_data of get_gap_histogram.
gap_bin_data(bin_item) ==
    [gap_range |->
        [min_gap_min_per_km |-> bin_item.min,
         max_gap_min_per_km |-> bin_item.max,
         min_gap_formatted |-> format_pace(bin_item.min),
         max_gap_formatted |-> format_pace(bin_item.max)],
     count |-> bin_item.count]
        @@ Opt(bin_item.secs # None, "time_seconds", Val(bin_item.secs))

\* activity_analysis.py 587-628: the envelope of get_gap_histogram.
gap_histogram_response(histogram, activity_id) ==
    IF histogram.bins = None \/ histogram.bins = <<>>
    THEN build_response(
            [histogram |-> <<>>, activity_id |-> activity_id],
            None,
            [message |-> "No GAP histogram data available for this activity"],
            None)
    ELSE build_response(
            [activity_id |-> activity_id,
             bins |-> [i \in 1..Len(histogram.bins) |-> gap_bin_data(histogram.bins[i])],
             total_samples |-> histogram.total_count,
             note |-> "GAP (Grade Adjusted Pace) normalizes pace for elevation changes"]
                @@ Opt(histogram.total_secs # None, "total_time_seconds",
                       Val(histogram.total_secs)),
            None, None, Some("gap_histogram"))

PaceHistogramTools == {"get_pace_histogram", "get_gap_histogram"}

\* Entry of a histogram tool up to the await of the client call.
get_pace_histogram_call(activity_id) ==
    /\ pc = "idle"
    /\ pc' = "await_api"
    /\ tool' = "get_pace_histogram"
    /\ args' = [activity_id |-> activity_id]
    /\ request' = [call |-> "get_pace_histogram", activity_id |-> activity_id]
    /\ UNCHANGED <<ctx_state, api_resp, result>>

get_gap_histogram_call(activity_id) ==
    /\ pc = "idle"
    /\ pc' = "await_api"
    /\ tool' = "get_gap_histogram"
    /\ args' = [activity_id |-> activity_id]
    /\ request' = [call |-> "get_gap_histogram", activity_id |-> activity_id]
    /\ UNCHANGED <<ctx_state, api_resp, result>>

\* The client answers with a pace or GAP histogram.
client_returns_histogram(histogram) ==
    /\ pc = "await_api"
    /\ tool \in PaceHistogramTools
    /\ pc' = "body"
    /\ api_resp' = histogram
    /\ UNCHANGED <<ctx_state, tool, args, request, result>>

get_pace_histogram_body ==
    /\ pc = "body"
    /\ tool = "get_pace_histogram"
    /\ pc' = "done"
    /\ result' = pace_histogram_response(api_resp, args.activity_id)
    /\ UNCHANGED <<ctx_state, tool, args, request, api_resp>>

get_gap_histogram_body ==
    /\ pc = "body"
    /\ tool = "get_gap_histogram"
    /\ pc' = "done"
    /\ result' = gap_histogram_response(api_resp, args.activity_id)
    /\ UNCHANGED <<ctx_state, tool, args, request, api_resp>>

\* The tools that format a pace: the two histograms and get_pace_curves.
NextPace ==
    \/ get_pace_histogram_call("a1")
    \/ get_gap_histogram_call("a1")
    \/ \E histogram \in Histograms : client_returns_histogram(histogram)
    \/ get_pace_histogram_body
    \/ get_gap_histogram_body
    \/ \E a \in PeriodArgs, use_gap \in BOOLEAN : get_pace_curves_call(a, use_gap)
    \/ \E d \in BoundedSeq(PacePoints, MaxCurveLen) : client_returns_curve(d)
    \/ get_pace_curves_body
    \/ \E kind \in {"ICUAPIError", "Exception"} : client_raises(kind)
    \/ tool_catches
    \/ tool_returns

SpecPace == Init /\ [][NextPace]_vars

----------------------------------------------------------------------------
(* Properties of the pace formatting *)

\* The two-digit decimal numeral of k in 0..99.
TwoDigits(k) == ToString(k \div 10) \o ToString(k % 10)

\* "M:SS /km" with M the whole minutes of the pace v / PaceDen and SS the
\* whole seconds of the rest, as two digits.
PaceText(v) ==
    ToString(v \div PaceDen) \o ":" \o TwoDigits(((v % PaceDen) * 60) \div PaceDen)
        \o " /km"

\* C10: every pace or GAP value the tools format reads "M:SS /km" with
\* M = floor(v) and SS = floor((v - floor(v)) * 60) in two digits: the bin
\* bounds of get_pace_histogram and get_gap_histogram, and the paces of
\* peak_efforts and of the summary of get_pace_curves.
C10_PaceFormat ==
    /\ (pc = "done" /\ tool = "get_pace_histogram" /\ api_resp # None
            /\ api_resp.bins # <<>>) =>
        \A i \in 1..Len(api_resp.bins) :
            /\ result.data.bins[i].pace_range.min_pace_formatted
                   = PaceText(api_resp.bins[i].min)
            /\ result.data.bins[i].pace_range.max_pace_formatted
                   = PaceText(api_resp.bins[i].max)
    /\ (pc = "done" /\ tool = "get_gap_histogram" /\ api_resp # None
            /\ api_resp.bins # <<>>) =>
        \A i \in 1..Len(api_resp.bins) :
            /\ result.data.bins[i].gap_range.min_gap_formatted
                   = PaceText(api_resp.bins[i].min)
            /\ result.data.bins[i].gap_range.max_gap_formatted
                   = PaceText(api_resp.bins[i].max)
    /\ (CurveDone /\ tool = "get_pace_curves") =>
        /\ \A L \in DOMAIN result.data.peak_efforts :
            "pace_formatted" \in DOMAIN result.data.peak_efforts[L] =>
                result.data.peak_efforts[L].pace_formatted
                    = PaceText(Val(result.data.peak_efforts[L].pace_min_per_km))
        /\ "best_pace_formatted" \in DOMAIN result.data.summary =>
                result.data.summary.best_pace_formatted
                    = PaceText(Val(result.data.summary.best_pace_min_per_km))

\* C10 witness: get_pace_histogram formats 4.125 min/km as "4:07 /km" (7.5 s,
\* truncated), 4.625 as "4:37 /km" and 4.5 as "4:30 /km".
C10_Witness ==
    /\ pc = "done"
    /\ tool = "get_pace_histogram"
    /\ api_resp # None
    /\ Len(api_resp.bins) = 2
    /\ api_resp.bins[1].min * 8 = 33 * PaceDen
    /\ api_resp.bins[2].min * 2 = 9 * PaceDen
    /\ result.data.bins[1].pace_range.min_pace_formatted = "4:07 /km"
    /\ result.data.bins[1].pace_range.max_pace_formatted = "4:37 /km"
    /\ result.data.bins[2].pace_range.min_pace_formatted = "4:30 /km"

----------------------------------------------------------------------------
(* get_power_histogram, get_hr_histogram *)

\* Bin bounds of the power and HR histograms are floats: numerators over
\* BinDen watts or beats per minute.
BinDen == 4

\* Largest lower bound of a power or HR bin, in 1/BinDen units.
MaxBinNum == 12

\* A power or HR bin from a lower bound, 5/BinDen units wide.
RangeBinOf(v) ==
    [min |-> v, max |-> v + 5, count |-> v + 1,
     secs |-> IF v % 2 = 0 THEN Some(10 * v) ELSE None]

\* The histograms the client may return: up to MaxBins bins in any order.
RangeHistograms ==
    { [bins |-> [i \in 1..Len(lows) |-> RangeBinOf(lows[i])],
       total_count |-> 100,
       total_secs |-> IF Len(lows) = 1 THEN None ELSE Some(3600)] :
        lows \in BoundedSeq(0..MaxBinNum, MaxBins) }

\* A variant of power_bin_data that rounds half up instead of truncating.
power_bin_data_rounded(bin_item) ==
    [power_range |->
        [min_watts |-> (2 * bin_item.min + BinDen) \div (2 * BinDen),
         max_watts |-> (2 * bin_item.max + BinDen) \div (2 * BinDen)],
     count |-> bin_item.count]
        @@ Opt(bin_item.secs # None, "time_seconds", Val(bin_item.secs))

\* activity_analysis.py 404-412: one entry of bins_data of get_power_histogram.
power_bin_data(bin_item) ==
    [power_range |->
        [min_watts |-> IntTrunc(bin_item.min, BinDen),
         max_watts |-> IntTrunc(bin_item.max, BinDen)],
     count |-> bin_item.count]
        @@ Opt(bin_item.secs # None, "time_seconds", Val(bin_item.secs))

\* activity_analysis.py 397-425: the envelope of get_power_histogram.
power_histogram_response(histogram, activity_id) ==
    IF histogram.bins = None \/ histogram.bins = <<>>
    THEN build_response(
            [histogram |-> <<>>, activity_id |-> activity_id],
            None,
            [message |-> "No power histogram data available for this activity"],
            None)
    ELSE build_response(
            [activity_id |-> activity_id,
             bins |-> [i \in 1..Len(histogram.bins) |-> power_bin_data(histogram.bins[i])],
             total_samples |-> histogram.total_count]
                @@ Opt(histogram.total_secs # None, "total_time_seconds",
                       Val(histogram.total_secs)),
            None, None, Some("power_histogram"))

\* activity_analysis.py 464-472: one entry of bins_data of get_hr_histogram.
hr_bin_data(bin_item) ==
    [hr_range |->
        [min_bpm |-> IntTrunc(bin_item.min, BinDen),
         max_bpm |-> IntTrunc(bin_item.max, BinDen)],
     count |-> bin_item.count]
        @@ Opt(bin_item.secs # None, "time_seconds", Val(bin_item.secs))

\* activity_analysis.py 457-485: the envelope of get_hr_histogram.
hr_histogram_response(histogram, activity_id) ==
    IF histogram.bins = None \/ histogram.bins = <<>>
    THEN build_response(
            [histogram |-> <<>>, activity_id |-> activity_id],
            None,
            [message |-> "No HR histogram data available for this activity"],
            None)
    ELSE build_response(
            [activity_id |-> activity_id,
             bins |-> [i \in 1..Len(histogram.bins) |-> hr_bin_data(histogram.bins[i])],
             total_samples |-> histogram.total_count]
                @@ Opt(histogram.total_secs # None, "total_time_seconds",
                       Val(histogram.total_secs)),
            None, None, Some("hr_histogram"))

RangeHistogramTools == {"get_power_histogram", "get_hr_histogram"}

get_power_histogram_call(activity_id) ==
    /\ pc = "idle"
    /\ pc' = "await_api"
    /\ tool' = "get_power_histogram"
    /\ args' = [activity_id |-> activity_id]
    /\ request' = [call |-> "get_power_histogram", activity_id |-> activity_id]
    /\ UNCHANGED <<ctx_state, api_resp, result>>

get_hr_histogram_call(activity_id) ==
    /\ pc = "idle"
    /\ pc' = "await_api"
    /\ tool' = "get_hr_histogram"
    /\ args' = [activity_id |-> activity_id]
    /\ request' = [call |-> "get_hr_histogram", activity_id |-> activity_id]
    /\ UNCHANGED <<ctx_state, api_resp, result>>

\* The client answers with a power or HR histogram.
client_returns_range_histogram(histogram) ==
    /\ pc = "await_api"
    /\ tool \in RangeHistogramTools
    /\ pc' = "body"
    /\ api_resp' = histogram
    /\ UNCHANGED <<ctx_state, tool, args, request, result>>

get_power_histogram_body ==
    /\ pc = "body"
    /\ tool = "get_power_histogram"
    /\ pc' = "done"
    /\ result' = power_histogram_response(api_resp, args.activity_id)
    /\ UNCHANGED <<ctx_state, tool, args, request, api_resp>>

get_hr_histogram_body ==
    /\ pc = "body"
    /\ tool = "get_hr_histogram"
    /\ pc' = "done"
    /\ result' = hr_histogram_response(api_resp, args.activity_id)
    /\ UNCHANGED <<ctx_state, tool, args, request, api_resp>>

NextHistogram ==
    \/ \E activity_id \in {"a1", "a2"} : get_power_histogram_call(activity_id)
    \/ \E activity_id \in {"a1", "a2"} : get_hr_histogram_call(activity_id)
    \/ \E histogram \in RangeHistograms : client_returns_range_histogram(histogram)
    \/ get_power_histogram_body
    \/ get_hr_histogram_body
    \/ \E kind \in {"ICUAPIError", "Exception"} : client_raises(kind)
    \/ tool_catches
    \/ tool_returns

SpecHistogram == Init /\ [][NextHistogram]_vars

----------------------------------------------------------------------------
(* Properties of the power and HR histograms *)

\* A power or HR histogram tool has formatted a non-empty histogram.
RangeHistogramDone ==
    /\ pc = "done"
    /\ tool \in RangeHistogramTools
    /\ api_resp # None
    /\ api_resp.bins # <<>>

\* The min/max pair of output bin i.
RangeOf(i) ==
    IF tool = "get_power_histogram"
    THEN [min |-> result.data.bins[i].power_range.min_watts,
          max |-> result.data.bins[i].power_range.max_watts]
    ELSE [min |-> result.data.bins[i].hr_range.min_bpm,
          max |-> result.data.bins[i].hr_range.max_bpm]

\* k is the whole part of the non-negative bound num / BinDen.
IsWholePart(k, num) == k * BinDen <= num /\ num < (k + 1) * BinDen

\* k is an integer nearest to the bound num / BinDen.
IsNearest(k, num) == 2 * Abs(k * BinDen - num) <= BinDen

\* C11 as stated: one output bin per input bin, in input order, with the
\* input count and with min and max the input bounds rounded to the nearest
\* integer.
C11_Original ==
    RangeHistogramDone =>
        /\ Len(result.data.bins) = Len(api_resp.bins)
        /\ \A i \in 1..Len(api_resp.bins) :
            /\ IsNearest(RangeOf(i).min, api_resp.bins[i].min)
            /\ IsNearest(RangeOf(i).max, api_resp.bins[i].max)
            /\ result.data.bins[i].count = api_resp.bins[i].count

\* C11: get_power_histogram and get_hr_histogram give one output bin per
\* input bin, in input order (no re-sorting), with the input count and with
\* min and max the input bounds truncated to their whole part (int()), not
\* rounded to the nearest integer.
C11_HistogramBins ==
    RangeHistogramDone =>
        /\ Len(result.data.bins) = Len(api_resp.bins)
        /\ \A i \in 1..Len(api_resp.bins) :
            /\ IsWholePart(RangeOf(i).min, api_resp.bins[i].min)
            /\ IsWholePart(RangeOf(i).max, api_resp.bins[i].max)
            /\ result.data.bins[i].count = api_resp.bins[i].count

\* C11 witness: get_power_histogram gets two bins out of order, the first
\* from 2.75 W to 4 W and the second from 1 W to 2.25 W, and answers them in
\* that order with the bounds 2..4 and 1..2.
C11_Witness ==
    /\ RangeHistogramDone
    /\ tool = "get_power_histogram"
    /\ Len(api_resp.bins) = 2
    /\ api_resp.bins[1].min * 4 = 11 * BinDen
    /\ api_resp.bins[2].min = BinDen
    /\ RangeOf(1) = [min |-> 2, max |-> 4]
    /\ RangeOf(2) = [min |-> 1, max |-> 2]
    /\ result.data.bins[1].count = api_resp.bins[1].count

----------------------------------------------------------------------------
(* Inputs of the tools that validate their arguments and write *)

\* Most optional arguments supplied at once, and most events of a bulk call.
MaxSupplied == 2

MaxEvents == 2

\* Date strings a caller may pass.
DateStrings ==
    {"2024-01-15", "2024-1-5", "2024-02-30", "15/01/2024", "",
     "2024-01-15T00:00:00", "tomorrowT"}

\* datetime.strptime(s, "%Y-%m-%d") returns (TRUE) or raises ValueError
\* (FALSE).  %m and %d also match one digit; the whole string must match and
\* name a day of the calendar.
strptime_ok(s) == s \in {"2024-01-15", "2024-1-5"}

\* "T" in s
contains_T(s) == s \in {"2024-01-15T00:00:00", "tomorrowT"}

\* str.upper() on the category strings of the model.
Upper(s) == IF s = "workout" THEN "WORKOUT" ELSE s

valid_categories == {"WORKOUT", "NOTE", "RACE", "GOAL"}

Categories == {"WORKOUT", "workout", "PARTY"}

\* Optional arguments by type; every other optional argument is a number.
StrFields ==
    {"name", "description", "event_type", "activity_type", "gear_type", "brand",
     "model", "text", "comments"}

BoolFields == {"trainer", "commute", "active", "primary"}

\* A value for a supplied optional argument: a falsy or a truthy one.
FieldValue(f, truthy) ==
    IF f \in StrFields THEN (IF truthy THEN "x" ELSE "")
    ELSE IF f \in BoolFields THEN truthy
    ELSE (IF truthy THEN 5 ELSE 0)

\* Every way to supply at most n of the optional arguments F: an argument
\* left out is None (its default).
OptionalArgs(F, n) ==
    UNION { { [f \in F |-> IF f \in S THEN Some(FieldValue(f, c[f])) ELSE None] :
              c \in [S -> BOOLEAN] } :
            S \in { T \in SUBSET F : Cardinality(T) <= n } }

\* The optional arguments in F that the caller supplied in a (not None).
SuppliedFields(F, a) == { f \in F : a[f] # None }

\* The first two statements of every tool function, outside its try block:
\* `assert ctx is not None` fails when the host passes no context, and an
\* exception of `await ctx.get_state("config")` is not caught.
tool_entry_raises(t, fault) ==
    /\ pc = "idle"
    /\ pc' = "raised"
    /\ tool' = t
    /\ result' = Raised(IF fault = "ctx_absent" THEN "AssertionError" ELSE "Exception")
    /\ UNCHANGED <<ctx_state, args, request, api_resp>>

\* The host handles the exception of a call; the call is over.
host_catches ==
    /\ pc = "raised"
    /\ pc' = "idle"
    /\ tool' = ""
    /\ args' = None
    /\ request' = None
    /\ api_resp' = None
    /\ result' = None
    /\ ctx_state' = EmptyDict

\* A tool returns a validation_error envelope before any request.
returns_validation_error(t, a, message) ==
    /\ tool' = t
    /\ args' = a
    /\ pc' = "done"
    /\ result' = build_error_response(message, "validation_error", None)
    /\ UNCHANGED <<ctx_state, request, api_resp>>

\* A tool issues its request to the client and awaits the answer.
issues_request(t, a, req) ==
    /\ tool' = t
    /\ args' = a
    /\ pc' = "await_api"
    /\ request' = req
    /\ UNCHANGED <<ctx_state, api_resp, result>>

\* The client answers the tools in T with x.
client_returns(T, x) ==
    /\ pc = "await_api"
    /\ tool \in T
    /\ pc' = "body"
    /\ api_resp' = x
    /\ UNCHANGED <<ctx_state, tool, args, request, result>>

\* The rest of the body of tool t returns the envelope env.
body_returns(t, env) ==
    /\ pc = "body"
    /\ tool = t
    /\ pc' = "done"
    /\ result' = env
    /\ UNCHANGED <<ctx_state, tool, args, request, api_resp>>

----------------------------------------------------------------------------
(* create_event, update_event, duplicate_event, bulk_create_events *)

InvalidDateMessage == "Invalid date format. Please use YYYY-MM-DD format."

InvalidCategoryMessage ==
    "Invalid category. Must be one of: WORKOUT, NOTE, RACE, GOAL"

NoFieldsMessage ==
    "No fields provided to update. Please specify at least one field to change."

\* Events the client may answer with: one with no optional attribute and one
\* with all of them.
Events ==
    { [id |-> 7, start_date_local |-> "2024-01-15T00:00:00", name |-> "Tempo",
       category |-> "WORKOUT", description |-> None, type |-> None,
       moving_time |-> Some(0), distance |-> None, icu_training_load |-> None],
      [id |-> 8, start_date_local |-> "2024-01-16T00:00:00", name |-> "Long run",
       category |-> "WORKOUT", description |-> Some("easy"), type |-> Some("Run"),
       moving_time |-> Some(3600), distance |-> Some(10000),
       icu_training_load |-> Some(50)] }

\* event_management.py 86-102 (and 190-206, 349-365, 480-496): the dict
\* built from an event of the client.
event_result(event) ==
    [id |-> event.id, start_date |-> event.start_date_local,
     name |-> event.name, category |-> event.category]
        @@ Opt(TruthyStr(event.description), "description", Val(event.description))
        @@ Opt(TruthyStr(event.type), "type", Val(event.type))
        @@ Opt(TruthyNum(event.moving_time), "duration_seconds", Val(event.moving_time))
        @@ Opt(TruthyNum(event.distance), "distance_meters", Val(event.distance))
        @@ Opt(TruthyNum(event.icu_training_load), "training_load",
               Val(event.icu_training_load))

CreateEventOptional ==
    {"description", "event_type", "duration_seconds", "distance_meters",
     "training_load"}

CreateEventArgs ==
    { [start_date |-> d, name |-> "Tempo", category |-> c, athlete_id |-> None] @@ o :
        d \in DateStrings, c \in Categories,
        o \in OptionalArgs(CreateEventOptional, MaxSupplied) }

\* event_management.py 66-81: event_data of create_event.
create_event_data(a) ==
    [start_date_local |-> a.start_date \o "T00:00:00", name |-> a.name,
     category |-> Upper(a.category)]
        @@ Opt(TruthyStr(a.description), "description", Val(a.description))
        @@ Opt(TruthyStr(a.event_type), "type", Val(a.event_type))
        @@ Opt(TruthyNum(a.duration_seconds), "moving_time", Val(a.duration_seconds))
        @@ Opt(TruthyNum(a.distance_meters), "distance", Val(a.distance_meters))
        @@ Opt(TruthyNum(a.training_load), "icu_training_load", Val(a.training_load))

\* event_management.py 46-84: create_event up to the await of the client.
create_event_call(a) ==
    /\ pc = "idle"
    /\ IF Upper(a.category) \notin valid_categories
       THEN returns_validation_error("create_event", a, InvalidCategoryMessage)
       ELSE IF ~strptime_ok(a.start_date)
       THEN returns_validation_error("create_event", a, InvalidDateMessage)
       ELSE issues_request("create_event", a,
                [call |-> "create_event", event_data |-> create_event_data(a),
                 athlete_id |-> a.athlete_id])

\* event_management.py 86-108
create_event_body ==
    body_returns("create_event",
        build_response(event_result(api_resp), None,
            [message |-> "Successfully created " \o Lower(args.category) \o ": "
                            \o args.name],
            Some("create_event")))

UpdateEventOptional ==
    {"name", "description", "event_type", "duration_seconds", "distance_meters",
     "training_load"}

UpdateEventArgs ==
    { [event_id |-> 7, start_date |-> d, athlete_id |-> None] @@ o :
        d \in {None} \cup { Some(x) : x \in DateStrings },
        o \in OptionalArgs(UpdateEventOptional, MaxSupplied) }

\* event_management.py 163-179: event_data of update_event.
update_event_data(a) ==
    Opt(a.name # None, "name", Val(a.name))
        @@ Opt(a.description # None, "description", Val(a.description))
        @@ Opt(a.start_date # None, "start_date_local",
               Val(a.start_date) \o "T00:00:00")
        @@ Opt(a.event_type # None, "type", Val(a.event_type))
        @@ Opt(a.duration_seconds # None, "moving_time", Val(a.duration_seconds))
        @@ Opt(a.distance_meters # None, "distance", Val(a.distance_meters))
        @@ Opt(a.training_load # None, "icu_training_load", Val(a.training_load))

\* event_management.py 151-188: update_event up to the await of the client.
\* The date is checked only `if start_date:`, that is when it is neither
\* None nor the empty string.
update_event_call(a) ==
    /\ pc = "idle"
    /\ IF TruthyStr(a.start_date) /\ ~strptime_ok(Val(a.start_date))
       THEN returns_validation_error("update_event", a, InvalidDateMessage)
       ELSE IF update_event_data(a) = EmptyDict
       THEN returns_validation_error("update_event", a, NoFieldsMessage)
       ELSE issues_request("update_event", a,
                [call |-> "update_event", event_id |-> a.event_id,
                 event_data |-> update_event_data(a), athlete_id |-> a.athlete_id])

\* event_management.py 190-212
update_event_body ==
    body_returns("update_event",
        build_response(event_result(api_resp), None,
            [message |-> "Successfully updated event " \o ToString(args.event_id)],
            Some("update_event")))

DuplicateEventArgs ==
    { [event_id |-> 7, new_date |-> d, athlete_id |-> None] : d \in DateStrings }

\* event_management.py 467-478: duplicate_event up to the await of the client.
duplicate_event_call(a) ==
    /\ pc = "idle"
    /\ IF ~strptime_ok(a.new_date)
       THEN returns_validation_error("duplicate_event", a, InvalidDateMessage)
       ELSE issues_request("duplicate_event", a,
                [call |-> "duplicate_event", event_id |-> a.event_id,
                 new_date |-> a.new_date, athlete_id |-> a.athlete_id])

\* event_management.py 480-506
duplicate_event_body ==
    body_returns("duplicate_event",
        build_response(
            event_result(api_resp) @@ [original_event_id |-> args.event_id],
            None,
            [message |-> "Successfully duplicated event " \o ToString(args.event_id)
                            \o " to " \o args.new_date,
             original_event_id |-> args.event_id],
            Some("duplicate_event")))

\* The JSON value null where a string is expected (json.loads gives None,
\* which has no method upper).
JsonNull == "<json null>"

\* The event objects of the JSON text passed to bulk_create_events: with
\* every required key, with one of them missing, or with a null category.
BulkEventDicts ==
    { [start_date_local |-> d, name |-> "Tempo", category |-> c] :
        d \in DateStrings, c \in {"workout", "PARTY"} }
    \cup { [name |-> "Tempo", category |-> "workout"],
           [start_date_local |-> "2024-01-15", category |-> "workout"],
           [start_date_local |-> "2024-01-15", name |-> "Tempo"],
           [start_date_local |-> "2024-01-15", name |-> "Tempo",
            category |-> JsonNull] }

\* The `events` argument by what json.loads makes of it: a JSONDecodeError,
\* a value that is not a list, or a list of event objects.
BulkInputs ==
    { [kind |-> "bad_json"], [kind |-> "object"] }
    \cup { [kind |-> "array", items |-> es] :
            es \in BoundedSeq(BulkEventDicts, MaxEvents) }

\* The text of the JSONDecodeError.
JsonErrorText == "Expecting value: line 1 column 1 (char 0)"

RECURSIVE bulk_validate(_, _)
\* event_management.py 303-342: the validation loop from event i (one-based
\* here, zero-based in the messages) over the list, which it normalises in
\* place; ok with the normalised list, or the message of the first failure,
\* or the AttributeError of calling upper() on a category that is no string.
bulk_validate(events_data, i) ==
    IF i > Len(events_data)
    THEN [ok |-> TRUE, events_data |-> events_data]
    ELSE LET event_data == events_data[i]
             prefix == "Event " \o ToString(i - 1) \o ": "
         IN  IF "start_date_local" \notin DOMAIN event_data
             THEN [ok |-> FALSE,
                   message |-> prefix \o "Missing required field 'start_date_local'"]
             ELSE IF "name" \notin DOMAIN event_data
             THEN [ok |-> FALSE,
                   message |-> prefix \o "Missing required field 'name'"]
             ELSE IF "category" \notin DOMAIN event_data
             THEN [ok |-> FALSE,
                   message |-> prefix \o "Missing required field 'category'"]
             ELSE IF event_data.category = JsonNull
             THEN [ok |-> FALSE, raises |-> "AttributeError",
                   message |-> "'NoneType' object has no attribute 'upper'"]
             ELSE IF Upper(event_data.category) \notin valid_categories
             THEN [ok |-> FALSE, message |-> prefix \o InvalidCategoryMessage]
             ELSE IF ~contains_T(event_data.start_date_local)
                        /\ ~strptime_ok(event_data.start_date_local)
             THEN [ok |-> FALSE, message |-> prefix \o InvalidDateMessage]
             ELSE bulk_validate(
                    [events_data EXCEPT ![i] =
                        [event_data EXCEPT
                            !.category = Upper(@),
                            !.start_date_local =
                                IF contains_T(@) THEN @ ELSE @ \o "T00:00:00"]],
                    i + 1)

BulkCreateArgs == { [events |-> e, athlete_id |-> None] : e \in BulkInputs }

\* event_management.py 286-345 and 380-383: bulk_create_events up to the
\* await of the client; an exception of the validation loop reaches the
\* catch-all.
bulk_create_events_call(a) ==
    /\ pc = "idle"
    /\ IF a.events.kind = "bad_json"
       THEN returns_validation_error("bulk_create_events", a,
                "Invalid JSON format: " \o JsonErrorText)
       ELSE IF a.events.kind # "array"
       THEN returns_validation_error("bulk_create_events", a,
                "Events must be a JSON array")
       ELSE IF "raises" \in DOMAIN bulk_validate(a.events.items, 1)
       THEN /\ tool' = "bulk_create_events"
            /\ args' = a
            /\ pc' = "done"
            /\ result' = except_clauses("bulk_create_events",
                            [raised |-> bulk_validate(a.events.items, 1).raises,
                             message |-> bulk_validate(a.events.items, 1).message])
            /\ UNCHANGED <<ctx_state, request, api_resp>>
       ELSE IF ~bulk_validate(a.events.items, 1).ok
       THEN returns_validation_error("bulk_create_events", a,
                bulk_validate(a.events.items, 1).message)
       ELSE issues_request("bulk_create_events", a,
                [call |-> "bulk_create_events",
                 events_data |-> bulk_validate(a.events.items, 1).events_data,
                 athlete_id |-> a.athlete_id])

\* event_management.py 347-376
bulk_create_events_body ==
    body_returns("bulk_create_events",
        build_response(
            [events |-> [i \in 1..Len(api_resp) |-> event_result(api_resp[i])]],
            None,
            [message |-> "Successfully created " \o ToString(Len(api_resp))
                            \o " events",
             count |-> Len(api_resp)],
            Some("bulk_create_events")))

EventTools == {"create_event", "update_event", "duplicate_event"}

----------------------------------------------------------------------------
(* get_wellness_for_date, update_wellness *)

WellnessFields ==
    {"sleep_secs", "sleep_quality", "sleep_score", "avg_sleeping_hr", "hrv",
     "hrv_sdnn", "resting_hr", "baevsky_si", "fatigue", "soreness", "stress",
     "mood", "motivation", "readiness", "injury", "weight", "body_fat",
     "systolic", "diastolic", "spo2", "respiration", "steps", "kcal_consumed",
     "hydration_volume", "ctl", "atl", "tsb", "ramp_rate", "blood_glucose",
     "lactate", "menstrual_phase"}

\* Wellness records the client may answer with: an empty one, one with a few
\* metrics (a resting HR of 0 among them) and one with every metric.
Wellnesses ==
    { [f \in WellnessFields |-> None] @@ [comments |-> None],
      [f \in WellnessFields |->
            IF f = "resting_hr" THEN Some(0)
            ELSE IF f \in {"sleep_secs", "hrv", "weight"} THEN Some(60)
            ELSE None] @@ [comments |-> Some("")],
      [f \in WellnessFields |-> Some(3)] @@ [comments |-> Some("rested")] }

\* {key: value} if the attribute is truthy; the values are whole numbers,
\* which round(value, 0) and round(value, 1) leave as they are.
Metric(wellness, attr, key) ==
    Opt(TruthyNum(wellness[attr]), key, Val(wellness[attr]))

\* {key: group} if the group is not empty.
Group(key, group) == Opt(group # EmptyDict, key, group)

\* wellness.py 219-325: wellness_data of get_wellness_for_date.
wellness_for_date_data(wellness, date) ==
    [date |-> date]
        @@ Group("sleep",
                Metric(wellness, "sleep_secs", "duration_seconds")
                @@ Metric(wellness, "sleep_quality", "quality")
                @@ Metric(wellness, "sleep_score", "score")
                @@ Metric(wellness, "avg_sleeping_hr", "avg_sleeping_hr"))
        @@ Group("heart",
                Metric(wellness, "hrv", "hrv_rmssd")
                @@ Metric(wellness, "hrv_sdnn", "hrv_sdnn")
                @@ Metric(wellness, "resting_hr", "resting_hr")
                @@ Metric(wellness, "baevsky_si", "baevsky_si"))
        @@ Group("subjective",
                Metric(wellness, "fatigue", "fatigue")
                @@ Metric(wellness, "soreness", "soreness")
                @@ Metric(wellness, "stress", "stress")
                @@ Metric(wellness, "mood", "mood")
                @@ Metric(wellness, "motivation", "motivation")
                @@ Metric(wellness, "readiness", "readiness")
                @@ Metric(wellness, "injury", "injury"))
        @@ Group("body",
                Metric(wellness, "weight", "weight_kg")
                @@ Metric(wellness, "body_fat", "body_fat_percent"))
        @@ Group("vitals",
                Metric(wellness, "systolic", "systolic_mmhg")
                @@ Metric(wellness, "diastolic", "diastolic_mmhg")
                @@ Metric(wellness, "spo2", "spo2_percent")
                @@ Metric(wellness, "respiration", "respiration_rate"))
        @@ Group("activity_nutrition",
                Metric(wellness, "steps", "steps")
                @@ Metric(wellness, "kcal_consumed", "calories_consumed")
                @@ Metric(wellness, "hydration_volume", "hydration_liters"))
        @@ Group("training",
                Metric(wellness, "ctl", "ctl")
                @@ Metric(wellness, "atl", "atl")
                @@ Metric(wellness, "tsb", "tsb")
                @@ Metric(wellness, "ramp_rate", "ramp_rate"))
        @@ Group("other",
                Metric(wellness, "blood_glucose", "blood_glucose_mmol_per_l")
                @@ Metric(wellness, "lactate", "lactate_mmol_per_l")
                @@ Metric(wellness, "menstrual_phase", "menstrual_phase"))
        @@ Opt(TruthyStr(wellness.comments), "comments", Val(wellness.comments))

\* wellness.py 206-217: get_wellness_for_date up to the await of the client.
get_wellness_for_date_call(a) ==
    /\ pc = "idle"
    /\ IF ~strptime_ok(a.date)
       THEN returns_validation_error("get_wellness_for_date", a, InvalidDateMessage)
       ELSE issues_request("get_wellness_for_date", a,
                [call |-> "get_wellness_for_date", date |-> a.date])

\* wellness.py 219-330
get_wellness_for_date_body ==
    body_returns("get_wellness_for_date",
        build_response(wellness_for_date_data(api_resp, args.date),
                       None, None, Some("wellness_for_date")))

UpdateWellnessOptional ==
    {"weight", "resting_hr", "hrv", "sleep_secs", "sleep_quality", "fatigue",
     "soreness", "stress", "mood", "motivation", "readiness", "comments"}

\* The dates update_wellness is called with in the model.
UpdateWellnessDates == {"2024-01-15", "2024-1-5", "2024-02-30", ""}

UpdateWellnessArgs ==
    { [date |-> d] @@ o :
        d \in UpdateWellnessDates,
        o \in OptionalArgs(UpdateWellnessOptional, MaxSupplied) }

\* wellness.py 396-421: wellness_data of update_wellness.
update_wellness_data(a) ==
    [id |-> a.date]
        @@ Opt(a.weight # None, "weight", Val(a.weight))
        @@ Opt(a.resting_hr # None, "restingHR", Val(a.resting_hr))
        @@ Opt(a.hrv # None, "hrv", Val(a.hrv))
        @@ Opt(a.sleep_secs # None, "sleepSecs", Val(a.sleep_secs))
        @@ Opt(a.sleep_quality # None, "sleepQuality", Val(a.sleep_quality))
        @@ Opt(a.fatigue # None, "fatigue", Val(a.fatigue))
        @@ Opt(a.soreness # None, "soreness", Val(a.soreness))
        @@ Opt(a.stress # None, "stress", Val(a.stress))
        @@ Opt(a.mood # None, "mood", Val(a.mood))
        @@ Opt(a.motivation # None, "motivation", Val(a.motivation))
        @@ Opt(a.readiness # None, "readiness", Val(a.readiness))
        @@ Opt(a.comments # None, "comments", Val(a.comments))

\* wellness.py 385-430: update_wellness up to the await of the client.
update_wellness_call(a) ==
    /\ pc = "idle"
    /\ IF ~strptime_ok(a.date)
       THEN returns_validation_error("update_wellness", a, InvalidDateMessage)
       ELSE IF Cardinality(DOMAIN update_wellness_data(a)) = 1
       THEN returns_validation_error("update_wellness", a,
                "No wellness data provided. Please specify at least one metric to update.")
       ELSE issues_request("update_wellness", a,
                [call |-> "update_wellness",
                 wellness_data |-> update_wellness_data(a)])

\* wellness.py 432-463
update_wellness_body ==
    body_returns("update_wellness",
        build_response(
            [date |-> args.date]
                @@ Metric(api_resp, "weight", "weight_kg")
                @@ Metric(api_resp, "resting_hr", "resting_hr")
                @@ Metric(api_resp, "hrv", "hrv_rmssd")
                @@ Metric(api_resp, "sleep_secs", "sleep_duration_seconds")
                @@ Metric(api_resp, "sleep_quality", "sleep_quality")
                @@ Metric(api_resp, "fatigue", "fatigue")
                @@ Metric(api_resp, "soreness", "soreness")
                @@ Metric(api_resp, "stress", "stress")
                @@ Metric(api_resp, "mood", "mood")
                @@ Metric(api_resp, "motivation", "motivation")
                @@ Metric(api_resp, "readiness", "readiness")
                @@ Opt(TruthyStr(api_resp.comments), "comments", Val(api_resp.comments)),
            None,
            [message |-> "Successfully updated wellness for " \o args.date],
            Some("update_wellness")))

WellnessTools == {"get_wellness_for_date", "update_wellness"}

----------------------------------------------------------------------------
(* get_recent_activities, search_activities, update_activity *)

\* An activity of the client with the attributes these tools read.
FullActivity(id) ==
    ActivityOf(id, 1)
        @@ [total_elevation_gain |-> IF id = "a1" THEN Some(300) ELSE None,
            normalized_power |-> IF id = "a1" THEN Some(210) ELSE None,
            average_cadence |-> IF id = "a1" THEN Some(0) ELSE Some(85),
            icu_intensity |-> None,
            description |-> IF id = "a1" THEN Some("") ELSE Some("windy"),
            trainer |-> IF id = "a1" THEN Some(FALSE) ELSE None,
            commute |-> IF id = "a1" THEN None ELSE Some(TRUE),
            feel |-> IF id = "a1" THEN Some(0) ELSE Some(4),
            perceived_exertion |-> IF id = "a1" THEN None ELSE Some(7)]

\* The lists get_activities and search_activities may answer with.
FoundActivities == BoundedSeq({FullActivity("a1"), FullActivity("a2")}, 2)

\* The limit passed on without a cap.
Min_uncapped(a, b) == a

\* min(limit, 100)
Min(a, b) == IF a < b THEN a ELSE b

\* activities.py 54-84: one entry of activities_data of get_recent_activities.
recent_activity_item(activity) ==
    [id |-> activity.id,
     name |-> IF TruthyStr(activity.name) THEN Val(activity.name) ELSE "Untitled",
     start_date |-> activity.start_date_local,
     type |-> activity.type]
        @@ Opt(TruthyNum(activity.distance), "distance_meters", Val(activity.distance))
        @@ Opt(TruthyNum(activity.moving_time), "moving_time_seconds",
               Val(activity.moving_time))
        @@ Opt(TruthyNum(activity.total_elevation_gain), "elevation_gain_meters",
               Val(activity.total_elevation_gain))
        @@ Opt(TruthyNum(activity.average_watts), "average_watts",
               Val(activity.average_watts))
        @@ Opt(TruthyNum(activity.normalized_power), "normalized_power",
               Val(activity.normalized_power))
        @@ Opt(TruthyNum(activity.average_heartrate), "average_heartrate",
               Val(activity.average_heartrate))
        @@ Opt(TruthyNum(activity.average_cadence), "average_cadence",
               Val(activity.average_cadence))
        @@ Opt(TruthyNum(activity.icu_training_load), "training_load",
               Val(activity.icu_training_load))
        @@ Opt(TruthyNum(activity.icu_intensity), "intensity_factor",
               Val(activity.icu_intensity))

RecentActivitiesArgs ==
    { [limit |-> l, days_back |-> 30, athlete_id |-> None] : l \in {30, 500} }

\* activities.py 34-44: get_recent_activities up to the await of the client.
get_recent_activities_call(a) ==
    /\ pc = "idle"
    /\ issues_request("get_recent_activities", a,
            [call |-> "get_activities", athlete_id |-> a.athlete_id,
             oldest |-> a.days_back, limit |-> Min(a.limit, 100)])

\* activities.py 46-91
get_recent_activities_body ==
    body_returns("get_recent_activities",
        IF api_resp = <<>>
        THEN build_response([activities |-> <<>>, count |-> 0], None,
                            [message |-> "No activities found"], None)
        ELSE build_response(
                [activities |->
                    [i \in 1..Len(api_resp) |-> recent_activity_item(api_resp[i])],
                 count |-> Len(api_resp)],
                None, None, Some("recent_activities")))

\* Search queries a caller may pass; str.strip() of the first two is empty.
Queries == {"", "   ", "tempo"}

strip(s) == IF s = "   " THEN "" ELSE s

SearchActivitiesArgs ==
    { [query |-> q, limit |-> 30, athlete_id |-> None] : q \in Queries }

\* activities.py 255-267: search_activities up to the await of the client.
search_activities_call(a) ==
    /\ pc = "idle"
    /\ IF strip(a.query) = ""
       THEN returns_validation_error("search_activities", a,
                "Search query cannot be empty")
       ELSE issues_request("search_activities", a,
                [call |-> "search_activities", athlete_id |-> a.athlete_id,
                 query |-> a.query, limit |-> Min(a.limit, 100)])

\* activities.py 275-287: one entry of activities_data of search_activities.
search_activity_item(activity) ==
    [id |-> activity.id,
     name |-> IF TruthyStr(activity.name) THEN Val(activity.name) ELSE "Untitled",
     start_date |-> activity.start_date_local,
     type |-> activity.type]
        @@ Opt(TruthyNum(activity.distance), "distance_meters", Val(activity.distance))
        @@ Opt(TruthyNum(activity.moving_time), "moving_time_seconds",
               Val(activity.moving_time))

\* activities.py 269-294
search_activities_body ==
    body_returns("search_activities",
        IF api_resp = <<>>
        THEN build_response(
                [activities |-> <<>>, count |-> 0, query |-> args.query], None,
                [message |-> "No activities found matching '" \o args.query \o "'"],
                None)
        ELSE build_response(
                [activities |->
                    [i \in 1..Len(api_resp) |-> search_activity_item(api_resp[i])],
                 count |-> Len(api_resp), query |-> args.query],
                None, None, Some("search_activities")))

UpdateActivityOptional ==
    {"name", "description", "activity_type", "trainer", "commute", "feel",
     "perceived_exertion"}

UpdateActivityArgs ==
    { [activity_id |-> "a1"] @@ o :
        o \in OptionalArgs(UpdateActivityOptional, MaxSupplied) }

\* update_activity_data keeping only the truthy arguments.
update_activity_data_truthy(a) ==
    Opt(TruthyStr(a.name), "name", Val(a.name))
        @@ Opt(TruthyStr(a.description), "description", Val(a.description))
        @@ Opt(TruthyStr(a.activity_type), "type", Val(a.activity_type))
        @@ Opt(a.trainer # None /\ Val(a.trainer), "trainer", Val(a.trainer))
        @@ Opt(a.commute # None /\ Val(a.commute), "commute", Val(a.commute))
        @@ Opt(TruthyNum(a.feel), "feel", Val(a.feel))
        @@ Opt(TruthyNum(a.perceived_exertion), "perceived_exertion",
               Val(a.perceived_exertion))

\* activities.py 339-354: activity_data of update_activity.
update_activity_data(a) ==
    Opt(a.name # None, "name", Val(a.name))
        @@ Opt(a.description # None, "description", Val(a.description))
        @@ Opt(a.activity_type # None, "type", Val(a.activity_type))
        @@ Opt(a.trainer # None, "trainer", Val(a.trainer))
        @@ Opt(a.commute # None, "commute", Val(a.commute))
        @@ Opt(a.feel # None, "feel", Val(a.feel))
        @@ Opt(a.perceived_exertion # None, "perceived_exertion",
               Val(a.perceived_exertion))

\* activities.py 337-363: update_activity up to the await of the client.
update_activity_call(a) ==
    /\ pc = "idle"
    /\ IF update_activity_data(a) = EmptyDict
       THEN returns_validation_error("update_activity", a, NoFieldsMessage)
       ELSE issues_request("update_activity", a,
                [call |-> "update_activity", activity_id |-> a.activity_id,
                 activity_data |-> update_activity_data(a)])

\* activities.py 365-387
update_activity_body ==
    body_returns("update_activity",
        build_response(
            [id |-> api_resp.id,
             name |-> IF TruthyStr(api_resp.name) THEN Val(api_resp.name)
                      ELSE "Untitled",
             type |-> api_resp.type,
             start_date |-> api_resp.start_date_local]
                @@ Opt(TruthyStr(api_resp.description), "description",
                       Val(api_resp.description))
                @@ Opt(api_resp.trainer # None, "trainer", Val(api_resp.trainer))
                @@ Opt(api_resp.commute # None, "commute", Val(api_resp.commute))
                @@ Opt(api_resp.feel # None, "feel", Val(api_resp.feel))
                @@ Opt(api_resp.perceived_exertion # None, "rpe",
                       Val(api_resp.perceived_exertion)),
            None,
            [message |-> "Successfully updated activity " \o args.activity_id],
            Some("update_activity")))

----------------------------------------------------------------------------
(* get_gear_list, update_gear, create_gear_reminder, update_gear_reminder *)

\* Reminders of the client: distances in metres, times in seconds.
Reminders ==
    { [id |-> 1, text |-> "Replace chain", distance_alert |-> Some(500000),
       time_alert |-> None, is_due |-> Some(FALSE), due_distance |-> Some(120000),
       due_time |-> None, snoozed_until |-> None],
      [id |-> 2, text |-> "Service", distance_alert |-> None,
       time_alert |-> Some(360000), is_due |-> None, due_distance |-> None,
       due_time |-> Some(7200), snoozed_until |-> Some("2024-02-01")] }

\* Gear items of the client: a bike with usage and reminders, shoes with none.
Gears ==
    { [id |-> "b1", name |-> "Road bike", gear_type |-> "BIKE", active |-> TRUE,
       primary |-> TRUE, brand |-> Some("Canyon"), model |-> Some(""),
       distance |-> Some(1500000), moving_time |-> Some(200000),
       activity_count |-> Some(40),
       reminders |-> << CHOOSE r \in Reminders : r.id = 1,
                        CHOOSE r \in Reminders : r.id = 2 >>],
      [id |-> "s1", name |-> "Shoes", gear_type |-> "SHOE", active |-> FALSE,
       primary |-> FALSE, brand |-> None, model |-> None,
       distance |-> None, moving_time |-> None, activity_count |-> None,
       reminders |-> <<>>] }

\* round(metres / 1000, 2) of a whole number of kilometres.
round_km(metres) == metres \div 1000

\* f"{hours}h {minutes}m"
total_time(moving_time) ==
    ToString(moving_time \div 3600) \o "h "
        \o ToString((moving_time % 3600) \div 60) \o "m"

\* gear.py 48-56 (get_gear_list) and 237-245 (update_gear): the usage dict.
gear_usage(gear) ==
    Opt(gear.distance # None, "total_distance_km", round_km(Val(gear.distance)))
        @@ Opt(gear.moving_time # None, "total_time", total_time(Val(gear.moving_time)))
        @@ Opt(gear.activity_count # None, "activity_count", Val(gear.activity_count))

\* gear.py 66-91: reminder_info of get_gear_list.
reminder_info(reminder) ==
    [id |-> reminder.id, text |-> reminder.text]
        @@ Opt(reminder.distance_alert # None, "alert_every_km",
               round_km(Val(reminder.distance_alert)))
        @@ Opt(reminder.time_alert # None, "alert_every_hours",
               Val(reminder.time_alert) \div 3600)
        @@ Opt(reminder.is_due # None, "is_due", Val(reminder.is_due))
        @@ Opt(reminder.due_distance # None, "due_in_km",
               round_km(Val(reminder.due_distance)))
        @@ Opt(reminder.due_time # None, "due_in_hours", Val(reminder.due_time) \div 3600)
        @@ Opt(TruthyStr(reminder.snoozed_until), "snoozed_until",
               Val(reminder.snoozed_until))

\* gear.py 34-98: gear_info of get_gear_list.
gear_info(gear) ==
    [id |-> gear.id, name |-> gear.name, type |-> gear.gear_type,
     active |-> gear.active]
        @@ Opt(TruthyStr(gear.brand), "brand", Val(gear.brand))
        @@ Opt(TruthyStr(gear.model), "model", Val(gear.model))
        @@ Opt(gear_usage(gear) # EmptyDict, "usage", gear_usage(gear))
        @@ Opt(gear.reminders # <<>>, "reminders",
               [i \in 1..Len(gear.reminders) |-> reminder_info(gear.reminders[i])])

\* gear.py 23-25: get_gear_list up to the await of the client.
get_gear_list_call ==
    /\ pc = "idle"
    /\ issues_request("get_gear_list", EmptyDict, [call |-> "get_gear"])

\* gear.py 27-101
get_gear_list_body ==
    body_returns("get_gear_list",
        IF api_resp = <<>>
        THEN build_response([message |-> "No gear items found"], None,
                            [count |-> 0], None)
        ELSE build_response(
                [gear |-> [i \in 1..Len(api_resp) |-> gear_info(api_resp[i])]],
                None,
                [count |-> Len(api_resp), type |-> "gear_list"],
                None))

UpdateGearOptional == {"name", "gear_type", "brand", "model", "active", "primary"}

UpdateGearArgs ==
    { [gear_id |-> "b1"] @@ o : o \in OptionalArgs(UpdateGearOptional, MaxSupplied) }

\* gear.py 203-216: gear_data of update_gear.
update_gear_data(a) ==
    Opt(a.name # None, "name", Val(a.name))
        @@ Opt(a.gear_type # None, "gear_type", Val(a.gear_type))
        @@ Opt(a.brand # None, "brand", Val(a.brand))
        @@ Opt(a.model # None, "model", Val(a.model))
        @@ Opt(a.active # None, "active", Val(a.active))
        @@ Opt(a.primary # None, "primary", Val(a.primary))

\* gear.py 201-223: update_gear up to the await of the client.
update_gear_call(a) ==
    /\ pc = "idle"
    /\ IF update_gear_data(a) = EmptyDict
       THEN returns_validation_error("update_gear", a, "No fields provided to update")
       ELSE issues_request("update_gear", a,
                [call |-> "update_gear", gear_id |-> a.gear_id,
                 gear_data |-> update_gear_data(a)])

\* gear.py 225-254
update_gear_body ==
    body_returns("update_gear",
        build_response(
            [id |-> api_resp.id, name |-> api_resp.name, type |-> api_resp.gear_type,
             active |-> api_resp.active, primary |-> api_resp.primary]
                @@ Opt(TruthyStr(api_resp.brand), "brand", Val(api_resp.brand))
                @@ Opt(TruthyStr(api_resp.model), "model", Val(api_resp.model))
                @@ Opt(api_resp.distance # None \/ api_resp.moving_time # None,
                       "usage", gear_usage(api_resp)),
            None,
            [type |-> "gear_updated", message |-> "Gear item updated successfully"],
            None))

CreateReminderArgs ==
    { [gear_id |-> "b1", text |-> "Replace chain"] @@ o :
        o \in OptionalArgs({"distance_alert", "time_alert"}, MaxSupplied) }

\* int(distance_alert * 1000) of a whole number of kilometres.
km_to_metres(distance_alert) == distance_alert * 1000

\* gear.py 323-331: reminder_data of create_gear_reminder.
create_reminder_data(a) ==
    [text |-> a.text]
        @@ Opt(a.distance_alert # None, "distance_alert",
               km_to_metres(Val(a.distance_alert)))
        @@ Opt(a.time_alert # None, "time_alert", Val(a.time_alert) * 3600)

\* create_gear_reminder sending its request before it checks the thresholds.
create_gear_reminder_call_validates_late(a) ==
    /\ pc = "idle"
    /\ IF a.distance_alert = None /\ a.time_alert = None
       THEN /\ tool' = "create_gear_reminder"
            /\ args' = a
            /\ pc' = "done"
            /\ request' = [call |-> "create_gear_reminder", gear_id |-> a.gear_id,
                           reminder_data |-> create_reminder_data(a)]
            /\ result' = build_error_response(
                    "Must specify at least one alert threshold (distance_alert or time_alert)",
                    "validation_error", None)
            /\ UNCHANGED <<ctx_state, api_resp>>
       ELSE issues_request("create_gear_reminder", a,
                [call |-> "create_gear_reminder", gear_id |-> a.gear_id,
                 reminder_data |-> create_reminder_data(a)])

\* gear.py 321-339: create_gear_reminder up to the await of the client.
create_gear_reminder_call(a) ==
    /\ pc = "idle"
    /\ IF a.distance_alert = None /\ a.time_alert = None
       THEN returns_validation_error("create_gear_reminder", a,
                "Must specify at least one alert threshold (distance_alert or time_alert)")
       ELSE issues_request("create_gear_reminder", a,
                [call |-> "create_gear_reminder", gear_id |-> a.gear_id,
                 reminder_data |-> create_reminder_data(a)])

\* gear.py 341-358 (and 411-418): the dict built from the client's reminder.
reminder_result(reminder, gear_id) ==
    [id |-> reminder.id, gear_id |-> gear_id, text |-> reminder.text]
        @@ Opt(reminder.distance_alert # None, "alert_every_km",
               round_km(Val(reminder.distance_alert)))
        @@ Opt(reminder.time_alert # None, "alert_every_hours",
               Val(reminder.time_alert) \div 3600)

\* gear.py 341-358
create_gear_reminder_body ==
    body_returns("create_gear_reminder",
        build_response(reminder_result(api_resp, args.gear_id), None,
            [type |-> "reminder_created",
             message |-> "Gear reminder created successfully"],
            None))

UpdateReminderOptional == {"text", "distance_alert", "time_alert"}

UpdateReminderArgs ==
    { [gear_id |-> "b1", reminder_id |-> 1] @@ o :
        o \in OptionalArgs(UpdateReminderOptional, MaxSupplied) }

\* gear.py 391-402: reminder_data of update_gear_reminder.
update_reminder_data(a) ==
    Opt(a.text # None, "text", Val(a.text))
        @@ Opt(a.distance_alert # None, "distance_alert",
               km_to_metres(Val(a.distance_alert)))
        @@ Opt(a.time_alert # None, "time_alert", Val(a.time_alert) * 3600)

\* gear.py 389-409: update_gear_reminder up to the await of the client.
update_gear_reminder_call(a) ==
    /\ pc = "idle"
    /\ IF update_reminder_data(a) = EmptyDict
       THEN returns_validation_error("update_gear_reminder", a,
                "No fields provided to update")
       ELSE issues_request("update_gear_reminder", a,
                [call |-> "update_gear_reminder", gear_id |-> a.gear_id,
                 reminder_id |-> a.reminder_id,
                 reminder_data |-> update_reminder_data(a)])

\* gear.py 411-436
update_gear_reminder_body ==
    body_returns("update_gear_reminder",
        build_response(
            reminder_result(api_resp, args.gear_id)
                @@ Opt(api_resp.is_due # None, "is_due", Val(api_resp.is_due))
                @@ Opt(api_resp.due_distance # None, "due_in_km",
                       round_km(Val(api_resp.due_distance)))
                @@ Opt(api_resp.due_time # None, "due_in_hours",
                       Val(api_resp.due_time) \div 3600),
            None,
            [type |-> "reminder_updated",
             message |-> "Gear reminder updated successfully"],
            None))

----------------------------------------------------------------------------
(* The tools that validate and write, with the athlete tools *)

\* The athletes the client answers these runs with: every combination of
\* present and absent metrics, at a few values.
ToolAthletes ==
    { athlete \in Athletes :
        /\ athlete.tsb \in {None, Some(0), Some(-MaxTsb)}
        /\ athlete.ramp_rate \in {None, Some(0), Some(MaxRamp)} }

ValidatingTools ==
    EventTools \cup {"bulk_create_events"} \cup WellnessTools \cup GearTools
        \cup {"get_recent_activities", "search_activities", "update_activity"}

NextTools ==
    \/ \E a \in CreateEventArgs : create_event_call(a)
    \/ \E a \in UpdateEventArgs : update_event_call(a)
    \/ \E a \in DuplicateEventArgs : duplicate_event_call(a)
    \/ \E a \in BulkCreateArgs : bulk_create_events_call(a)
    \/ \E event \in Events : client_returns(EventTools, event)
    \/ \E created_events \in BoundedSeq(Events, MaxEvents) :
            client_returns({"bulk_create_events"}, created_events)
    \/ create_event_body
    \/ update_event_body
    \/ duplicate_event_body
    \/ bulk_create_events_body
    \/ \E d \in DateStrings : get_wellness_for_date_call([date |-> d])
    \/ \E a \in UpdateWellnessArgs : update_wellness_call(a)
    \/ \E wellness \in Wellnesses : client_returns(WellnessTools, wellness)
    \/ get_wellness_for_date_body
    \/ update_wellness_body
    \/ \E a \in RecentActivitiesArgs : get_recent_activities_call(a)
    \/ \E a \in SearchActivitiesArgs : search_activities_call(a)
    \/ \E a \in UpdateActivityArgs : update_activity_call(a)
    \/ \E activities \in FoundActivities :
            client_returns({"get_recent_activities", "search_activities"}, activities)
    \/ \E id \in {"a1", "a2"} : client_returns({"update_activity"}, FullActivity(id))
    \/ get_recent_activities_body
    \/ search_activities_body
    \/ update_activity_body
    \/ get_gear_list_call
    \/ \E a \in UpdateGearArgs : update_gear_call(a)
    \/ \E a \in CreateReminderArgs : create_gear_reminder_call(a)
    \/ \E a \in UpdateReminderArgs : update_gear_reminder_call(a)
    \/ \E gear_list \in BoundedSeq(Gears, 2) : client_returns({"get_gear_list"}, gear_list)
    \/ \E gear \in Gears : client_returns({"update_gear"}, gear)
    \/ \E reminder \in Reminders :
            client_returns({"create_gear_reminder", "update_gear_reminder"}, reminder)
    \/ get_gear_list_body
    \/ update_gear_body
    \/ create_gear_reminder_body
    \/ update_gear_reminder_body
    \/ get_athlete_profile_call
    \/ get_fitness_summary_call
    \/ \E athlete \in ToolAthletes : client_returns_athlete(athlete)
    \/ get_athlete_profile_body
    \/ get_fitness_summary_body
    \/ \E kind \in {"ICUAPIError", "Exception"} : client_raises(kind)
    \/ tool_catches
    \/ \E t \in ValidatingTools \cup AthleteTools,
          fault \in {"ctx_absent", "get_state_raises"} : tool_entry_raises(t, fault)
    \/ host_catches
    \/ tool_returns

SpecTools == Init /\ [][NextTools]_vars

----------------------------------------------------------------------------
(* Properties of the envelopes *)

\* A tool function has returned an envelope to the host.
Returned == pc = "done" /\ result # None

\* C12: a success envelope has the key analysis (metadata) only with a
\* non-empty mapping; the athlete tools emit analysis exactly when the
\* analysis they computed is non-empty, and get_fitness_summary with ctl
\* present and tsb and ramp_rate absent returns an envelope without it.
C12_EmptyMappingsOmitted ==
    /\ (Returned /\ IsSuccess(result)) =>
        /\ "analysis" \in DOMAIN result => result.analysis # EmptyDict
        /\ "metadata" \in DOMAIN result => result.metadata # EmptyDict
    /\ (Returned /\ IsSuccess(result) /\ tool = "get_fitness_summary") =>
        ("analysis" \in DOMAIN result <=> summary_analysis(api_resp) # EmptyDict)
    /\ (Returned /\ IsSuccess(result) /\ tool = "get_athlete_profile") =>
        ("analysis" \in DOMAIN result <=> profile_analysis(api_resp) # EmptyDict)
    /\ (Returned /\ tool = "get_fitness_summary" /\ api_resp # None
            /\ api_resp.ctl # None /\ api_resp.tsb = None
            /\ api_resp.ramp_rate = None) =>
        IsSuccess(result) /\ "analysis" \notin DOMAIN result

\* C12 witness: get_fitness_summary answers an athlete with ctl but neither
\* tsb nor ramp_rate with a success envelope that has no analysis key.
C12_Witness ==
    /\ Returned
    /\ tool = "get_fitness_summary"
    /\ api_resp # None
    /\ api_resp.ctl # None
    /\ api_resp.tsb = None
    /\ api_resp.ramp_rate = None
    /\ IsSuccess(result)
    /\ DOMAIN result = {"data", "query_type"}

SuccessKeys == {"data", "analysis", "metadata", "query_type"}

ErrorKeys == {"error", "error_type", "suggestions"}

\* C13: whatever a tool function returns is one envelope of the builder,
\* success-shaped (data and no error) or error-shaped (error, error_type and
\* no data), never both; the envelope is produced once per invocation, at
\* the return, and not changed afterwards.
C13_OneEnvelopeShape ==
    /\ [](Returned =>
            \/ /\ "data" \in DOMAIN result
               /\ DOMAIN result \subseteq SuccessKeys
            \/ /\ {"error", "error_type"} \subseteq DOMAIN result
               /\ DOMAIN result \subseteq ErrorKeys)
    /\ [][result' # result =>
            \/ result = None /\ pc' \in {"done", "raised"}
            \/ result' = None /\ pc' = "idle"]_vars

\* C13 witness: get_fitness_summary returns its no_data envelope, which has
\* an error and no data.
C13_Witness ==
    /\ Returned
    /\ tool = "get_fitness_summary"
    /\ result.error_type = "no_data"
    /\ DOMAIN result = {"error", "error_type"}

----------------------------------------------------------------------------
(* Properties of the validation *)

\* The tool returned a validation_error envelope.
ValidationError ==
    Returned /\ IsError(result) /\ result.error_type = "validation_error"

\* C14: when a tool returns a validation_error envelope, it has issued no
\* request to the remote API and received no answer in that invocation.
C14_ValidationBeforeRequest ==
    ValidationError => request = None /\ api_resp = None

\* C14 witness: create_gear_reminder, which validates inside its client
\* block, rejects a call with no threshold without having sent a request.
C14_Witness ==
    /\ ValidationError
    /\ tool = "create_gear_reminder"
    /\ args.distance_alert = None
    /\ args.time_alert = None
    /\ request = None

DateTools ==
    {"create_event", "update_event", "duplicate_event", "get_wellness_for_date",
     "update_wellness", "bulk_create_events"}

\* The date strings the caller supplied in the arguments a of tool t.
SuppliedDates(t, a) ==
    IF t = "create_event" THEN {a.start_date}
    ELSE IF t = "update_event"
    THEN (IF a.start_date = None THEN {} ELSE {Val(a.start_date)})
    ELSE IF t = "duplicate_event" THEN {a.new_date}
    ELSE IF t \in WellnessTools THEN {a.date}
    ELSE IF a.events.kind = "array"
    THEN { a.events.items[i].start_date_local :
            i \in { j \in 1..Len(a.events.items) :
                        "start_date_local" \in DOMAIN a.events.items[j] } }
    ELSE {}

\* A valid YYYY-MM-DD date, read generously: a day of the calendar, with one
\* or two digits for month and day; bulk_create_events documents
\* start_date_local, for which the full "YYYY-MM-DDT00:00:00" is valid too.
ValidDate(t, s) ==
    \/ s \in {"2024-01-15", "2024-1-5"}
    \/ t = "bulk_create_events" /\ s = "2024-01-15T00:00:00"

\* C15 as stated: whenever a date string supplied to one of the six tools is
\* not a valid date, the tool returns a validation_error envelope and no
\* request reaches the remote API.
C15_Original ==
    (/\ tool \in DateTools
     /\ pc \in {"await_api", "body", "done"}
     /\ \E s \in SuppliedDates(tool, args) : ~ValidDate(tool, s)) =>
        ValidationError /\ request = None

\* C15, what the code ensures: create_event, duplicate_event,
\* get_wellness_for_date and update_wellness reject every date strptime
\* rejects; update_event does so unless the date is the empty string, and
\* bulk_create_events unless the date contains "T"; bulk_create_events may
\* answer with its internal_error instead when an event's category is no
\* string. No request is sent.
C15_DatesChecked ==
    (tool \in DateTools /\ pc \in {"await_api", "body", "done"}) =>
        \A s \in SuppliedDates(tool, args) :
            (/\ ~strptime_ok(s)
             /\ ~(tool = "update_event" /\ s = "")
             /\ ~(tool = "bulk_create_events" /\ contains_T(s))) =>
                /\ request = None
                /\ \/ ValidationError
                   \/ /\ tool = "bulk_create_events"
                      /\ Returned
                      /\ IsError(result)
                      /\ result.error_type = "internal_error"
                      /\ \E i \in 1..Len(args.events.items) :
                            /\ "category" \in DOMAIN args.events.items[i]
                            /\ args.events.items[i].category = JsonNull

\* C15 witness: update_event called with start_date "" has sent the client
\* an update whose start_date_local is "T00:00:00".
C15_Witness ==
    /\ pc = "await_api"
    /\ tool = "update_event"
    /\ args.start_date = Some("")
    /\ request.event_data.start_date_local = "T00:00:00"

----------------------------------------------------------------------------
(* Properties of the update tools *)

UpdateTools ==
    {"update_activity", "update_event", "update_gear", "update_gear_reminder",
     "update_wellness"}

\* The optional update fields of an update tool.
UpdateFieldsOf(t) ==
    IF t = "update_activity" THEN UpdateActivityOptional
    ELSE IF t = "update_event" THEN UpdateEventOptional \cup {"start_date"}
    ELSE IF t = "update_gear" THEN UpdateGearOptional
    ELSE IF t = "update_gear_reminder" THEN UpdateReminderOptional
    ELSE UpdateWellnessOptional

\* The update payload of a request.
PayloadOf(req) ==
    IF req.call = "update_activity" THEN req.activity_data
    ELSE IF req.call = "update_event" THEN req.event_data
    ELSE IF req.call = "update_gear" THEN req.gear_data
    ELSE IF req.call = "update_gear_reminder" THEN req.reminder_data
    ELSE req.wellness_data

\* The key of the remote API for the argument f of tool t.
PayloadKey(t, f) ==
    IF f \in {"event_type", "activity_type"} THEN "type"
    ELSE IF f = "start_date" THEN "start_date_local"
    ELSE IF f = "duration_seconds" THEN "moving_time"
    ELSE IF f = "distance_meters" THEN "distance"
    ELSE IF f = "training_load" THEN "icu_training_load"
    ELSE IF f = "resting_hr" THEN "restingHR"
    ELSE IF f = "sleep_secs" THEN "sleepSecs"
    ELSE IF f = "sleep_quality" THEN "sleepQuality"
    ELSE f

\* The value sent for the argument f with value v: as supplied, but for the
\* time suffix of a date and the units of a reminder.
PayloadValue(t, f, v) ==
    IF f = "start_date" THEN v \o "T00:00:00"
    ELSE IF f = "distance_alert" THEN v * 1000
    ELSE IF f = "time_alert" THEN v * 3600
    ELSE v

\* C16: an update tool called with none of its optional fields returns a
\* validation_error envelope and sends no request; called with some, it
\* sends (unless it rejects the date) a payload that holds exactly the
\* supplied fields, falsy values included, plus the date id for
\* update_wellness.
C16_UpdatePayload ==
    (tool \in UpdateTools /\ pc \in {"await_api", "body", "done"}) =>
        LET F == SuppliedFields(UpdateFieldsOf(tool), args)
        IN  /\ F = {} => ValidationError /\ request = None
            /\ (F # {} /\ request = None) =>
                /\ tool \in {"update_event", "update_wellness"}
                /\ ValidationError
                /\ result.error = InvalidDateMessage
            /\ request # None =>
                /\ F # {}
                /\ DOMAIN PayloadOf(request) =
                        { PayloadKey(tool, f) : f \in F }
                            \cup (IF tool = "update_wellness" THEN {"id"} ELSE {})
                /\ \A f \in F :
                        PayloadOf(request)[PayloadKey(tool, f)]
                            = PayloadValue(tool, f, Val(args[f]))
                /\ tool = "update_wellness" => PayloadOf(request).id = args.date

\* C16 witness: update_activity called with feel = 0 and trainer = False
\* only has sent exactly these two fields.
C16_Witness ==
    /\ pc = "await_api"
    /\ tool = "update_activity"
    /\ SuppliedFields(UpdateActivityOptional, args) = {"feel", "trainer"}
    /\ request.activity_data = [feel |-> 0, trainer |-> FALSE]

----------------------------------------------------------------------------
(* Properties of the error handling *)

\* The client has raised a classified API error and the tool handles it.
HandlesApiError == pc = "except" /\ api_resp.raised = "ICUAPIError"

\* C17: when the client raises a classified API error during a tool call,
\* the tool's next step returns an error envelope of type api_error whose
\* error text is the message of the API error; the call does not end with
\* an exception.
C17_ApiErrorEnvelope ==
    [][HandlesApiError =>
        /\ pc' = "done"
        /\ IsError(result')
        /\ "data" \notin DOMAIN result'
        /\ result'.error_type = "api_error"
        /\ result'.error = api_resp.message]_vars

\* C17 witness: update_wellness has returned the api_error envelope of an
\* API error raised by the client.
C17_Witness ==
    /\ Returned
    /\ tool = "update_wellness"
    /\ request # None
    /\ IsError(result)
    /\ result.error_type = "api_error"
    /\ result.error = ApiErrorMessage

\* The client has raised an exception that is no classified API error and
\* the tool handles it.
HandlesOtherException == pc = "except" /\ api_resp.raised # "ICUAPIError"

C19_Original == tool # "" => pc # "raised"

\* C19: once a tool function has entered its try block, it ends by
\* returning an envelope, whatever the client does. (Its first two
\* statements, which read the context, are outside the try block.)
C19_NoFaultAfterEntry ==
    [][(tool # "" /\ pc \in {"await_api", "body", "except"}) =>
        /\ pc' \in {"body", "except", "done"}
        /\ pc' = "done" => (IsSuccess(result') \/ IsError(result'))]_vars

\* C19 witness: get_athlete_profile called without a context has raised
\* the AssertionError of its first statement.
C19_Witness ==
    /\ pc = "raised"
    /\ tool = "get_athlete_profile"
    /\ result = Raised("AssertionError")
    /\ request = None

----------------------------------------------------------------------------
(* ConfigMiddleware.on_call_tool *)

\* The configurations load_config() reads from the environment.
Configs == [api_key : {"", "key", "other-key"}, athlete_id : {"", "i123"}]

\* Whether the credentials of a configuration are set.
validate_credentials(config) == config.api_key # "" /\ config.athlete_id # ""

\* The MiddlewareContext of a call: whether it has a FastMCP context, and
\* the tool the host calls.
MiddlewareContexts == [fastmcp_context : BOOLEAN, name : AthleteTools]

CredentialsMessage ==
    "Intervals.icu credentials not configured. Please run 'icu-mcp-auth' to set up authentication."

ToolError(message) == [raised |-> "ToolError", message |-> message]

\* on_call_tool storing the config and going on whatever the credentials.
on_call_tool_unvalidated(context, config) ==
    /\ pc = "idle"
    /\ pc' = "call_next"
    /\ args' = [context |-> context, config |-> config]
    /\ ctx_state' =
            IF context.fastmcp_context THEN [config |-> config] ELSE ctx_state
    /\ UNCHANGED <<tool, request, api_resp, result>>

\* on_call_tool going on to call_next without storing the config.
on_call_tool_no_set_state(context, config) ==
    /\ pc = "idle"
    /\ args' = [context |-> context, config |-> config]
    /\ IF ~validate_credentials(config)
       THEN /\ pc' = "raised"
            /\ result' = ToolError(CredentialsMessage)
       ELSE /\ pc' = "call_next"
            /\ UNCHANGED result
    /\ UNCHANGED <<ctx_state, tool, request, api_resp>>

\* middleware.py 25-41: on_call_tool up to its await of call_next. args
\* holds the MiddlewareContext and the loaded config while the middleware
\* runs.
on_call_tool(context, config) ==
    /\ pc = "idle"
    /\ args' = [context |-> context, config |-> config]
    /\ IF ~validate_credentials(config)
       THEN /\ pc' = "raised"
            /\ result' = ToolError(CredentialsMessage)
            /\ UNCHANGED ctx_state
       ELSE /\ pc' = "call_next"
            /\ ctx_state' =
                    IF context.fastmcp_context THEN [config |-> config]
                    ELSE ctx_state
            /\ UNCHANGED result
    /\ UNCHANGED <<tool, request, api_resp>>

\* ctx.get_state(key): the value stored under key, None when there is none.
get_state(key) == IF key \in DOMAIN ctx_state THEN ctx_state[key] ELSE None

\* middleware.py 42: call_next runs the tool function of the call, which
\* receives the FastMCP context of the MiddlewareContext: without one its
\* assert fails, with one it reads the config with get_state, makes the
\* client from it and awaits the client. The athlete tools take no
\* arguments; args goes on holding the middleware's.
call_next ==
    /\ pc = "call_next"
    /\ tool' = args.context.name
    /\ IF args.context.fastmcp_context
       THEN /\ pc' = "await_api"
            /\ request' = [call |-> "get_athlete", config |-> get_state("config")]
            /\ UNCHANGED <<ctx_state, args, api_resp, result>>
       ELSE /\ pc' = "raised"
            /\ result' = Raised("AssertionError")
            /\ UNCHANGED <<ctx_state, args, request, api_resp>>

NextMiddleware ==
    \/ \E context \in MiddlewareContexts, config \in Configs :
            on_call_tool(context, config)
    \/ call_next
    \/ \E athlete \in ToolAthletes : client_returns_athlete(athlete)
    \/ get_athlete_profile_body
    \/ get_fitness_summary_body
    \/ \E kind \in {"ICUAPIError", "Exception"} : client_raises(kind)
    \/ tool_catches
    \/ tool_returns
    \/ host_catches

SpecMiddleware == Init /\ [][NextMiddleware]_vars

\* The middleware has loaded a config and has not yet handed over to a tool.
InMiddleware == tool = "" /\ pc \in {"call_next", "raised"}

\* C20: when validate_credentials is false for the loaded config, the
\* middleware has raised the ToolError with the fixed message naming
\* 'icu-mcp-auth', the context state has no 'config' and no request was
\* issued; a tool function starts only from call_next, reached with valid
\* credentials.
C20_InvalidCredentialsRejected ==
    /\ []((InMiddleware /\ ~validate_credentials(args.config)) =>
            /\ pc = "raised"
            /\ result = ToolError(CredentialsMessage)
            /\ "config" \notin DOMAIN ctx_state
            /\ request = None)
    /\ [][(tool = "" /\ tool' # "") =>
            /\ pc = "call_next"
            /\ validate_credentials(args.config)]_vars
    /\ [][(InMiddleware /\ pc = "raised") => (pc' = "idle" /\ tool' = "")]_vars

\* C20 witness: a call whose config has no API key was rejected although
\* the call has a FastMCP context.
C20_Witness ==
    /\ InMiddleware
    /\ pc = "raised"
    /\ args.config.api_key = ""
    /\ args.context.fastmcp_context
    /\ result = ToolError(CredentialsMessage)
    /\ ctx_state = EmptyDict

\* A tool function runs inside its try block or has returned.
ToolBodyRuns == tool # "" /\ pc \in {"await_api", "body", "except", "done"}

\* C21 as stated: every call of the middleware sets the 'config' state to
\* the loaded config and goes on to call_next.
C21_Original ==
    InMiddleware =>
        /\ pc = "call_next"
        /\ ctx_state = [config |-> args.config]

\* C21: the middleware loads and validates the config once; only with valid
\* credentials does it go on, storing the config under 'config' when the
\* call has a FastMCP context, once and before call_next, which it then
\* calls once. Whenever a tool body runs, the 'config' state and the config
\* the tool read are the config loaded and validated in that call.
C21_ConfigInjected ==
    /\ []((InMiddleware /\ pc = "call_next") =>
            /\ validate_credentials(args.config)
            /\ ctx_state = IF args.context.fastmcp_context
                           THEN [config |-> args.config] ELSE EmptyDict)
    /\ [](ToolBodyRuns =>
            /\ validate_credentials(args.config)
            /\ ctx_state = [config |-> args.config]
            /\ request.config = args.config)
    /\ [][ctx_state' # ctx_state =>
            \/ pc = "idle" /\ ctx_state = EmptyDict /\ pc' = "call_next"
            \/ pc' = "idle" /\ ctx_state' = EmptyDict]_vars
    /\ [][tool' # tool =>
            \/ pc = "call_next" /\ tool = "" /\ tool' = args.context.name
            \/ pc' = "idle" /\ tool' = ""]_vars

\* C21 witness: get_fitness_summary has returned in a call whose middleware
\* loaded the second valid config, which is the one in the 'config' state.
C21_Witness ==
    /\ ToolBodyRuns
    /\ pc = "done"
    /\ tool = "get_fitness_summary"
    /\ args.config.api_key = "other-key"
    /\ ctx_state = [config |-> args.config]
    /\ request.config.api_key = "other-key"

----------------------------------------------------------------------------
(* Date range of the curve tools, over all kinds of arguments *)

\* Longest curve the client returns when the arguments vary.
MaxPeriodCurveLen == 1

\* days_back absent, zero or positive; time_period absent, empty, a period
\* in some case, 'all' in some case, or something else.
AllPeriodArgs ==
    [days_back : {None, Some(0), Some(14)},
     time_period : {None, Some(""), Some("Week"), Some("month"), Some("YEAR"),
                    Some("all"), Some("ALL"), Some("nonsense")}]

NextPeriod ==
    \/ \E a \in AllPeriodArgs : get_power_curves_call(a)
    \/ \E a \in AllPeriodArgs : get_hr_curves_call(a)
    \/ \E a \in AllPeriodArgs, use_gap \in BOOLEAN : get_pace_curves_call(a, use_gap)
    \/ \E d \in BoundedSeq(CurvePointsOf(tool), MaxPeriodCurveLen) :
            client_returns_curve(d)
    \/ \E kind \in {"ICUAPIError", "Exception"} : client_raises(kind)
    \/ tool_catches
    \/ get_power_curves_body
    \/ get_hr_curves_body
    \/ get_pace_curves_body
    \/ tool_returns

SpecPeriod == Init /\ [][NextPeriod]_vars

\* The curve tool has passed its date range.
CurveCalled == tool \in CurveTools /\ pc \in {"await_api", "body", "except", "done"}

\* The request of the call asks for the curve since `days` days ago, or
\* with no lower bound when days is None.
AsksSince(days) == request # None /\ request.oldest = days

\* C22: in the curve tools a supplied days_back (0 included) gives the
\* window whatever time_period is; otherwise 'week'/'month'/'year' in any
\* case give 7/30/365 days, 'all' in any case no lower bound, any other
\* non-empty time_period a validation_error with no request, and no
\* time_period (absent or empty) 90 days.
C22_DateRange ==
    CurveCalled =>
        LET d == args.days_back
            p == args.time_period
        IN  /\ d # None => AsksSince(d)
            /\ (d = None /\ p = Some("Week")) => AsksSince(Some(7))
            /\ (d = None /\ p = Some("month")) => AsksSince(Some(30))
            /\ (d = None /\ p = Some("YEAR")) => AsksSince(Some(365))
            /\ (d = None /\ p \in {Some("all"), Some("ALL")}) => AsksSince(None)
            /\ (d = None /\ p = Some("nonsense")) =>
                    ValidationError /\ request = None /\ api_resp = None
            /\ (d = None /\ p \in {None, Some("")}) => AsksSince(Some(90))

\* C22 witness: get_pace_curves called with days_back = 0 and an invalid
\* time_period asks for the curve since today.
C22_Witness ==
    /\ pc = "await_api"
    /\ tool = "get_pace_curves"
    /\ args.days_back = Some(0)
    /\ args.time_period = Some("nonsense")
    /\ request.oldest = Some(0)

----------------------------------------------------------------------------
(* The limit of get_recent_activities, search_activities, search_activities_full *)

\* The limits a caller asks for: below, at and above the cap of 100.
LimitValues == {0, 30, 100, 101, 500}

LimitedRecentArgs ==
    { [limit |-> l, days_back |-> 30, athlete_id |-> None] : l \in LimitValues }

LimitedSearchArgs ==
    { [query |-> q, limit |-> l, athlete_id |-> None] :
        q \in {"   ", "tempo"}, l \in LimitValues }

LimitedSearchFullArgs ==
    { [query |-> q, limit |-> l] : q \in {"   ", "tempo"}, l \in LimitValues }

\* activities.py 666-679: search_activities_full up to the await of the client.
search_activities_full_call(a) ==
    /\ pc = "idle"
    /\ IF strip(a.query) = ""
       THEN returns_validation_error("search_activities_full", a,
                "Search query cannot be empty")
       ELSE issues_request("search_activities_full", a,
                [call |-> "search_activities_full", query |-> a.query,
                 limit |-> Min(a.limit, 100)])

\* activities.py 705-714: the performance entry of an activity.
search_full_performance(activity) ==
    Opt(TruthyNum(activity.average_watts), "average_watts", Val(activity.average_watts))
        @@ Opt(TruthyNum(activity.normalized_power), "normalized_power",
               Val(activity.normalized_power))
        @@ Opt(TruthyNum(activity.average_heartrate), "average_heartrate",
               Val(activity.average_heartrate))
        @@ Opt(TruthyNum(activity.average_cadence), "average_cadence",
               Val(activity.average_cadence))

\* activities.py 689-722: one entry of activities_data of search_activities_full.
search_full_activity_item(activity) ==
    [id |-> activity.id,
     name |-> IF TruthyStr(activity.name) THEN Val(activity.name) ELSE "Untitled",
     type |-> activity.type,
     start_date |-> activity.start_date_local]
        @@ Opt(TruthyNum(activity.distance), "distance_meters", Val(activity.distance))
        @@ Opt(TruthyNum(activity.moving_time), "moving_time_seconds",
               Val(activity.moving_time))
        @@ Opt(TruthyNum(activity.total_elevation_gain), "elevation_gain_meters",
               Val(activity.total_elevation_gain))
        @@ Opt(search_full_performance(activity) # EmptyDict, "performance",
               search_full_performance(activity))
        @@ Opt(TruthyNum(activity.icu_training_load), "training_load",
               Val(activity.icu_training_load))
        @@ Opt(TruthyNum(activity.icu_intensity), "intensity_factor",
               Val(activity.icu_intensity))

\* activities.py 681-731
search_activities_full_body ==
    body_returns("search_activities_full",
        IF api_resp = <<>>
        THEN build_response(
                [activities |-> <<>>, count |-> 0, query |-> args.query], None,
                [message |-> "No activities found matching '" \o args.query \o "'"],
                None)
        ELSE build_response(
                [activities |->
                    [i \in 1..Len(api_resp) |-> search_full_activity_item(api_resp[i])],
                 count |-> Len(api_resp), query |-> args.query],
                None, None, Some("search_activities_full")))

LimitTools == {"get_recent_activities", "search_activities", "search_activities_full"}

NextLimit ==
    \/ \E a \in LimitedRecentArgs : get_recent_activities_call(a)
    \/ \E a \in LimitedSearchArgs : search_activities_call(a)
    \/ \E a \in LimitedSearchFullArgs : search_activities_full_call(a)
    \/ \E x \in FoundActivities : client_returns(LimitTools, x)
    \/ get_recent_activities_body
    \/ search_activities_body
    \/ search_activities_full_body
    \/ \E kind \in {"ICUAPIError", "Exception"} : client_raises(kind)
    \/ tool_catches
    \/ tool_returns

SpecLimit == Init /\ [][NextLimit]_vars

\* C23: the limit in the request of get_recent_activities,
\* search_activities and search_activities_full is the caller's limit when
\* that is at most 100, is 100 when it is more, and so never exceeds 100.
C23_LimitCapped ==
    (tool \in LimitTools /\ request # None) =>
        /\ request.limit <= 100
        /\ args.limit <= 100 => request.limit = args.limit
        /\ args.limit > 100 => request.limit = 100

\* C23 witness: search_activities_full asked for 500 results has requested
\* 100.
C23_Witness ==
    /\ pc = "await_api"
    /\ tool = "search_activities_full"
    /\ args.limit = 500
    /\ request.limit = 100

----------------------------------------------------------------------------
(* The list get_activities_around receives *)

\* get_activities_around runs its body on the list the client returned.
AroundBodyStep == pc = "body" /\ tool = "get_activities_around" /\ pc' = "done"

\* The number of entries of list equal to x.
Occurrences(list, x) == Cardinality({ i \in 1..Len(list) : list[i] = x })

\* C24 as stated: the list the client returned is the same, in order and
\* contents, after get_activities_around as before.
C24_Original == [][AroundBodyStep => api_resp' = api_resp]_vars

\* C24: get_activities_around keeps the contents of the list the client
\* returned but reorders it: after the call the list holds the same
\* activities in ascending start date order, activities of one date in
\* their former order.
C24_SortedInPlace ==
    [][AroundBodyStep =>
        /\ Len(api_resp') = Len(api_resp)
        /\ \A i \in 1..Len(api_resp) :
                Occurrences(api_resp', api_resp[i]) = Occurrences(api_resp, api_resp[i])
        /\ \A i, j \in 1..Len(api_resp') :
                i < j => api_resp'[i].start_date_local <= api_resp'[j].start_date_local
        /\ api_resp' = sort_by_start_date(api_resp)]_vars

\* C24 witness: the client has returned a list whose first activity is
\* later than its second, and get_activities_around is about to sort it.
C24_Witness ==
    /\ pc = "body"
    /\ tool = "get_activities_around"
    /\ Len(api_resp) = 2
    /\ api_resp[1].start_date_local > api_resp[2].start_date_local

----------------------------------------------------------------------------
(* A calculator invoked twice *)

\* Longest power curve the client returns when a tool is called twice.
MaxTwiceCurveLen == 2

\* The host calls the tool again with the same arguments and the client
\* answers with the same object, as the first invocation left it; result
\* still holds the envelope of the first invocation while the body runs.
called_again ==
    /\ pc = "done"
    /\ api_resp # None
    /\ IsSuccess(result)
    /\ pc' = "body"
    /\ UNCHANGED <<ctx_state, tool, args, request, api_resp, result>>

NextTwice ==
    \/ get_power_curves_call([days_back |-> None, time_period |-> None])
    \/ \E d \in BoundedSeq(PowerPoints, MaxTwiceCurveLen) : client_returns_curve(d)
    \/ get_power_curves_body
    \/ get_athlete_profile_call
    \/ get_fitness_summary_call
    \/ \E athlete \in ToolAthletes : client_returns_athlete(athlete)
    \/ get_athlete_profile_body
    \/ get_fitness_summary_body
    \/ get_pace_histogram_call("a1")
    \/ \E histogram \in Histograms : client_returns_histogram(histogram)
    \/ get_pace_histogram_body
    \/ \E activity_id \in ReferenceIds : get_activities_around_call(activity_id, 5)
    \/ \E activities \in ActivityLists : client_returns_activities(activities)
    \/ get_activities_around_body
    \/ called_again
    \/ \E kind \in {"ICUAPIError", "Exception"} : client_raises(kind)
    \/ tool_catches
    \/ tool_returns

SpecTwice == Init /\ [][NextTwice]_vars

\* The body of a tool runs for the second time on the same input.
SecondRun == pc = "body" /\ result # None

----------------------------------------------------------------------------
(* Two concurrent tool invocations *)

\* In this specification each variable holds one value per invocation: an
\* invocation is an asynchronous task with its own MiddlewareContext, its
\* own per-request state store and its own locals; the tasks interleave at
\* their awaits.
Invocations == {1, 2}

\* The athletes the client answers concurrent calls with: one with fitness
\* data, one without.
ConcurrentAthletes ==
    { athlete \in Athletes :
        athlete.atl = None /\ athlete.tsb = Some(0) /\ athlete.ramp_rate = None }

InitConcurrent ==
    /\ pc = [i \in Invocations |-> "idle"]
    /\ tool = [i \in Invocations |-> ""]
    /\ args = [i \in Invocations |-> None]
    /\ request = [i \in Invocations |-> None]
    /\ api_resp = [i \in Invocations |-> None]
    /\ result = [i \in Invocations |-> None]
    /\ ctx_state = [i \in Invocations |-> EmptyDict]

\* on_call_tool of invocation i storing the config in one store shared by
\* all invocations.
on_call_tool_of_shared_store(i, context, config) ==
    /\ pc[i] = "idle"
    /\ args' = [args EXCEPT ![i] = [context |-> context, config |-> config]]
    /\ IF ~validate_credentials(config)
       THEN /\ pc' = [pc EXCEPT ![i] = "raised"]
            /\ result' = [result EXCEPT ![i] = ToolError(CredentialsMessage)]
            /\ UNCHANGED ctx_state
       ELSE /\ pc' = [pc EXCEPT ![i] = "call_next"]
            /\ ctx_state' =
                    IF context.fastmcp_context
                    THEN [j \in Invocations |-> [config |-> config]]
                    ELSE ctx_state
            /\ UNCHANGED result
    /\ UNCHANGED <<tool, request, api_resp>>

\* middleware.py 25-41 for invocation i.
on_call_tool_of(i, context, config) ==
    /\ pc[i] = "idle"
    /\ args' = [args EXCEPT ![i] = [context |-> context, config |-> config]]
    /\ IF ~validate_credentials(config)
       THEN /\ pc' = [pc EXCEPT ![i] = "raised"]
            /\ result' = [result EXCEPT ![i] = ToolError(CredentialsMessage)]
            /\ UNCHANGED ctx_state
       ELSE /\ pc' = [pc EXCEPT ![i] = "call_next"]
            /\ ctx_state' =
                    IF context.fastmcp_context
                    THEN [ctx_state EXCEPT ![i] = [config |-> config]]
                    ELSE ctx_state
            /\ UNCHANGED result
    /\ UNCHANGED <<tool, request, api_resp>>

\* middleware.py 42 and athlete.py 23-27 for invocation i: the tool reads
\* the config from its context and awaits the client.
call_next_of(i) ==
    /\ pc[i] = "call_next"
    /\ tool' = [tool EXCEPT ![i] = args[i].context.name]
    /\ IF args[i].context.fastmcp_context
       THEN /\ pc' = [pc EXCEPT ![i] = "await_api"]
            /\ request' = [request EXCEPT ![i] =
                    [call |-> "get_athlete",
                     config |-> IF "config" \in DOMAIN ctx_state[i]
                                THEN ctx_state[i].config ELSE None]]
            /\ UNCHANGED <<ctx_state, args, api_resp, result>>
       ELSE /\ pc' = [pc EXCEPT ![i] = "raised"]
            /\ result' = [result EXCEPT ![i] = Raised("AssertionError")]
            /\ UNCHANGED <<ctx_state, args, request, api_resp>>

\* The client answers invocation i.
client_returns_athlete_to(i, athlete) ==
    /\ pc[i] = "await_api"
    /\ pc' = [pc EXCEPT ![i] = "body"]
    /\ api_resp' = [api_resp EXCEPT ![i] = athlete]
    /\ UNCHANGED <<ctx_state, tool, args, request, result>>

\* The client raises in invocation i.
client_raises_in(i, kind) ==
    /\ pc[i] = "await_api"
    /\ pc' = [pc EXCEPT ![i] = "except"]
    /\ api_resp' = [api_resp EXCEPT ![i] = Exception(kind)]
    /\ UNCHANGED <<ctx_state, tool, args, request, result>>

\* The except clauses of the tool of invocation i.
tool_catches_in(i) ==
    /\ pc[i] = "except"
    /\ pc' = [pc EXCEPT ![i] = "done"]
    /\ result' = [result EXCEPT ![i] = except_clauses(tool[i], api_resp[i])]
    /\ api_resp' = [api_resp EXCEPT ![i] = None]
    /\ UNCHANGED <<ctx_state, tool, args, request>>

\* The envelope an athlete tool returns for the client's answer.
athlete_tool_response(t, athlete) ==
    IF t = "get_athlete_profile" THEN athlete_profile_response(athlete)
    ELSE fitness_summary_response(athlete)

\* athlete.py 29-129 and 165-276 for invocation i.
athlete_tool_body_of(i) ==
    /\ pc[i] = "body"
    /\ pc' = [pc EXCEPT ![i] = "done"]
    /\ result' = [result EXCEPT ![i] = athlete_tool_response(tool[i], api_resp[i])]
    /\ UNCHANGED <<ctx_state, tool, args, request, api_resp>>

\* Invocation i is over: the host has its envelope or its exception.
invocation_ends(i) ==
    /\ pc[i] \in {"done", "raised"}
    /\ pc' = [pc EXCEPT ![i] = "idle"]
    /\ tool' = [tool EXCEPT ![i] = ""]
    /\ args' = [args EXCEPT ![i] = None]
    /\ request' = [request EXCEPT ![i] = None]
    /\ api_resp' = [api_resp EXCEPT ![i] = None]
    /\ result' = [result EXCEPT ![i] = None]
    /\ ctx_state' = [ctx_state EXCEPT ![i] = EmptyDict]

NextConcurrent ==
    \E i \in Invocations :
        \/ \E context \in MiddlewareContexts, config \in Configs :
                on_call_tool_of(i, context, config)
        \/ call_next_of(i)
        \/ \E athlete \in ConcurrentAthletes : client_returns_athlete_to(i, athlete)
        \/ \E kind \in {"ICUAPIError", "Exception"} : client_raises_in(i, kind)
        \/ tool_catches_in(i)
        \/ athlete_tool_body_of(i)
        \/ invocation_ends(i)

SpecConcurrent == InitConcurrent /\ [][NextConcurrent]_vars

\* The variables of invocation i.
varsOf(i) == <<pc[i], tool[i], args[i], request[i], api_resp[i], result[i], ctx_state[i]>>

\* The tool function of invocation i runs inside its try block or has
\* returned.
ToolBodyRunsIn(i) == tool[i] # "" /\ pc[i] \in {"await_api", "body", "except", "done"}

\* C26: in every interleaving of two invocations, the config a tool body
\* read is the one the middleware of its own invocation loaded and stored,
\* the envelope an invocation returns is the one its tool gives for its own
\* answer (or exception) of the client, and a step of one invocation
\* changes nothing of the other.
C26_Isolation ==
    /\ [](\A i \in Invocations :
            ToolBodyRunsIn(i) =>
                /\ ctx_state[i] = [config |-> args[i].config]
                /\ request[i].config = args[i].config)
    /\ [][\A i \in Invocations :
            /\ (pc[i] = "body" /\ pc'[i] # "body") =>
                    /\ pc'[i] = "done"
                    /\ result'[i] = athlete_tool_response(tool[i], api_resp[i])
            /\ (pc[i] = "except" /\ pc'[i] # "except") =>
                    /\ pc'[i] = "done"
                    /\ result'[i] = except_clauses(tool[i], api_resp[i])]_vars
    /\ [][\E i \in Invocations :
            \A j \in Invocations \ {i} : varsOf(j)' = varsOf(j)]_vars

\* C26 witness: both invocations have returned, with different configs and
\* different envelopes, the first an error and the second a success.
C26_Witness ==
    /\ pc[1] = "done" /\ pc[2] = "done"
    /\ request[1].config.api_key = "key"
    /\ request[2].config.api_key = "other-key"
    /\ IsError(result[1])
    /\ IsSuccess(result[2])

----------------------------------------------------------------------------
(* Properties of get_fitness_summary *)

\* get_fitness_summary has returned.
FitnessSummaryDone == pc = "done" /\ tool = "get_fitness_summary"

FitnessMetricNames == {"ctl", "atl", "tsb", "ramp_rate"}

\* C27: get_fitness_summary returns a no_data error exactly when the client
\* answered and both ctl and atl are absent; when the client answered and
\* ctl or atl is present it returns a success envelope whose fitness_metrics
\* has exactly the present metrics among ctl, atl, tsb, ramp_rate, each with
\* its value.
C27_NoDataOrMetrics ==
    FitnessSummaryDone =>
        /\ (IsError(result) /\ result.error_type = "no_data")
                <=> (api_resp # None /\ api_resp.ctl = None /\ api_resp.atl = None)
        /\ (api_resp # None /\ (api_resp.ctl # None \/ api_resp.atl # None)) =>
                /\ IsSuccess(result)
                /\ ~IsError(result)
                /\ DOMAIN result.data.fitness_metrics
                        = { m \in FitnessMetricNames : api_resp[m] # None }
                /\ \A m \in DOMAIN result.data.fitness_metrics :
                        result.data.fitness_metrics[m].value = Val(api_resp[m])

\* C27 witness: with atl present, ctl absent and tsb zero the summary is a
\* success with the metrics atl and tsb.
C27_Witness ==
    /\ FitnessSummaryDone
    /\ api_resp # None
    /\ api_resp.ctl = None
    /\ api_resp.tsb = Some(0)
    /\ IsSuccess(result)
    /\ DOMAIN result.data.fitness_metrics = {"atl", "tsb"}

----------------------------------------------------------------------------
(* Properties of bulk_create_events *)

\* bulk_create_events was called with a JSON array and has passed its
\* validation loop.
BulkCalled ==
    /\ tool = "bulk_create_events"
    /\ pc \in {"await_api", "body", "except", "done"}
    /\ args.events.kind = "array"

RequiredEventKeys == {"start_date_local", "name", "category"}

\* The event lacks a required key, has a category that is not one of the
\* four, or a start date without time that is no date.
FailsValidation(e) ==
    \/ ~(RequiredEventKeys \subseteq DOMAIN e)
    \/ e.category \notin
            {"workout", "WORKOUT", "note", "NOTE", "race", "RACE", "goal", "GOAL"}
    \/ ~contains_T(e.start_date_local) /\ ~strptime_ok(e.start_date_local)

\* The zero-based indices of the events that fail.
FailingIndices ==
    { i - 1 : i \in { j \in 1..Len(args.events.items) :
                        FailsValidation(args.events.items[j]) } }

BulkMessages ==
    {"Missing required field 'start_date_local'", "Missing required field 'name'",
     "Missing required field 'category'", InvalidCategoryMessage, InvalidDateMessage}

\* The envelope is a validation_error about event k.
ValidationErrorNaming(k) ==
    /\ ValidationError
    /\ \E m \in BulkMessages : result.error = "Event " \o ToString(k) \o ": " \o m

\* Every event was sent, its category in upper case and its start date
\* with a time.
AllEventsSent ==
    /\ request # None
    /\ request.call = "bulk_create_events"
    /\ Len(request.events_data) = Len(args.events.items)
    /\ \A i \in 1..Len(args.events.items) :
        LET e == args.events.items[i]
            sent == request.events_data[i]
        IN  /\ sent.name = e.name
            /\ sent.category = "WORKOUT"
            /\ sent.start_date_local =
                    IF contains_T(e.start_date_local) THEN e.start_date_local
                    ELSE e.start_date_local \o "T00:00:00"

\* C28 as stated: when an event fails validation the tool returns a
\* validation_error naming the lowest failing index and sends nothing;
\* otherwise it sends every event, normalised, in one request.
C28_Original ==
    BulkCalled =>
        IF FailingIndices # {}
        THEN ValidationErrorNaming(MinOf(FailingIndices)) /\ request = None
        ELSE AllEventsSent

\* The first failing event has its three keys and a null category.
FirstFailureIsNullCategory ==
    LET e == args.events.items[MinOf(FailingIndices) + 1]
    IN  RequiredEventKeys \subseteq DOMAIN e /\ e.category = JsonNull

\* C28: bulk_create_events sends nothing when an event fails validation,
\* and returns a validation_error naming the lowest failing index unless
\* that event's category is no string, in which case it returns an
\* internal_error; with no failing event it sends every event, normalised,
\* in one request.
C28_AllOrNothing ==
    BulkCalled =>
        IF FailingIndices # {}
        THEN /\ request = None
             /\ api_resp = None
             /\ IF FirstFailureIsNullCategory
                THEN /\ Returned
                     /\ IsError(result)
                     /\ result.error_type = "internal_error"
                ELSE ValidationErrorNaming(MinOf(FailingIndices))
        ELSE AllEventsSent

\* C28 witness: a valid event followed by one with a null category gave an
\* internal_error and no request.
C28_Witness ==
    /\ BulkCalled
    /\ Len(args.events.items) = 2
    /\ ~FailsValidation(args.events.items[1])
    /\ RequiredEventKeys \subseteq DOMAIN args.events.items[2]
    /\ args.events.items[2].category = JsonNull
    /\ Returned
    /\ result.error_type = "internal_error"
    /\ request = None

----------------------------------------------------------------------------
(* FTP analysis and the 20-minute peak effort of get_power_curves *)

\* Longest power curve the client returns around the 20-minute mark.
MaxFtpCurveLen == 2

\* Durations at and around 1200 s: 1079 is just outside the 120 s window,
\* 1080 and 1320 are equally far from 1200 s on its edge.
FtpSecs == {1079, 1080, 1200, 1320}

\* Power points near 20 minutes: watts missing, too small for a positive
\* estimate (int(1 * 0.95) = 0), just enough (int(2 * 0.95) = 1) or usual.
FtpPoints ==
    [secs : FtpSecs, watts : {None, Some(1), Some(2), Some(300)},
     date : {None}, src_activity_id : {None}]

NextFtp ==
    \/ \E a \in PeriodArgs : get_power_curves_call(a)
    \/ \E d \in BoundedSeq(FtpPoints, MaxFtpCurveLen) : client_returns_curve(d)
    \/ \E kind \in {"ICUAPIError", "Exception"} : client_raises(kind)
    \/ tool_catches
    \/ get_power_curves_body
    \/ tool_returns

SpecFtp == Init /\ [][NextFtp]_vars

\* get_power_curves has answered from a curve of the client.
PowerCurveAnswered ==
    /\ pc = "done"
    /\ tool = "get_power_curves"
    /\ api_resp # None
    /\ IsSuccess(result)

\* The index of the first point of data closest to 1200 s.
FirstClosestTo1200(data) ==
    CHOOSE i \in 1..Len(data) :
        /\ \A j \in 1..Len(data) : Abs(data[i].secs - 1200) <= Abs(data[j].secs - 1200)
        /\ \A j \in 1..(i - 1) : Abs(data[j].secs - 1200) > Abs(data[i].secs - 1200)

\* C29: when the answer of get_power_curves has ftp_analysis, peak_efforts
\* has '20_min' built from the same curve point (the first point closest to
\* 1200 s), twenty_min_power is the watts of that peak effort, the point is
\* within 120 s of 1200 s, and estimated_ftp is 95% of its watts truncated
\* to an integer and positive.
C29_FtpFromTwentyMinEffort ==
    (PowerCurveAnswered /\ "ftp_analysis" \in DOMAIN result.data) =>
        LET data == api_resp.data
            ftp == result.data.ftp_analysis
            point == data[FirstClosestTo1200(data)]
        IN  /\ "20_min" \in DOMAIN result.data.peak_efforts
            /\ result.data.peak_efforts["20_min"].watts = point.watts
            /\ result.data.peak_efforts["20_min"].duration_seconds = point.secs
            /\ ftp.twenty_min_power = result.data.peak_efforts["20_min"].watts
            /\ Abs(point.secs - 1200) <= 120
            /\ point.watts # None
            /\ ftp.estimated_ftp = (95 * Val(point.watts)) \div 100
            /\ ftp.estimated_ftp > 0

\* C29 witness: two points equally far from 1200 s on the edge of the
\* window; the first one (2 W at 1080 s) gives both the 20-minute peak
\* effort and an estimated FTP of 1 W.
C29_Witness ==
    /\ PowerCurveAnswered
    /\ Len(api_resp.data) = 2
    /\ api_resp.data[1].secs = 1080
    /\ api_resp.data[1].watts = Some(2)
    /\ api_resp.data[2].secs = 1320
    /\ api_resp.data[2].watts = Some(300)
    /\ "ftp_analysis" \in DOMAIN result.data
    /\ result.data.ftp_analysis.twenty_min_power = Some(2)
    /\ result.data.ftp_analysis.estimated_ftp = 1
    /\ result.data.peak_efforts["20_min"].duration_seconds = 1080

----------------------------------------------------------------------------
(* Recommendations and form classification of get_fitness_summary *)

\* get_fitness_summary has answered with a summary of the client's athlete.
FitnessSummaryGiven ==
    /\ FitnessSummaryDone
    /\ api_resp # None
    /\ IsSuccess(result)

RecoveryPair ==
    <<"Take an easy week or rest days",
      "Focus on recovery and low-intensity activities">>

\* The answer classifies the form as very_fatigued.
VeryFatigued ==
    /\ "form_status" \in DOMAIN AnalysisOf(result)
    /\ AnalysisOf(result).form_status = "very_fatigued"

\* The answer recommends the recovery pair.
RecommendsRecovery ==
    /\ "recommendations" \in DOMAIN AnalysisOf(result)
    /\ AnalysisOf(result).recommendations = RecoveryPair

\* C30 as stated: with tsb and ramp_rate both present a very_fatigued form
\* gets the recovery pair, the recovery pair is given for no other
\* form_status, and there are no recommendations when tsb or ramp_rate is
\* absent.
C30_Original ==
    FitnessSummaryGiven =>
        /\ (api_resp.tsb # None /\ api_resp.ramp_rate # None /\ VeryFatigued)
                => RecommendsRecovery
        /\ RecommendsRecovery => VeryFatigued
        /\ (api_resp.tsb = None \/ api_resp.ramp_rate = None)
                => "recommendations" \notin DOMAIN AnalysisOf(result)

\* C30: what the code does. The form is very_fatigued exactly for a present
\* tsb <= -30, while the recovery pair is recommended exactly when tsb and
\* ramp_rate are both present and tsb < -30: at tsb = -30 a very_fatigued
\* form comes with other recommendations. The recovery pair is given for no
\* other form_status, and recommendations are present exactly when tsb and
\* ramp_rate both are.
C30_RecoveryBelowMinus30 ==
    FitnessSummaryGiven =>
        /\ VeryFatigued <=> (api_resp.tsb # None /\ Val(api_resp.tsb) <= -30)
        /\ RecommendsRecovery
                <=> (/\ api_resp.tsb # None
                     /\ api_resp.ramp_rate # None
                     /\ Val(api_resp.tsb) < -30)
        /\ RecommendsRecovery => VeryFatigued
        /\ "recommendations" \in DOMAIN AnalysisOf(result)
                <=> (api_resp.tsb # None /\ api_resp.ramp_rate # None)

\* C30 witness: at tsb = -30 and ramp_rate = 0 the form is very_fatigued
\* and the recommendations are those of the ordinary case.
C30_Witness ==
    /\ FitnessSummaryGiven
    /\ api_resp.tsb = Some(-30)
    /\ api_resp.ramp_rate = Some(0)
    /\ VeryFatigued
    /\ AnalysisOf(result).form_interpretation = "High fatigue - prioritize recovery"
    /\ AnalysisOf(result).recommendations =
            <<"Continue current training approach",
              "Mix hard sessions with recovery days">>

====
